---- MODULE Spec2Model ----
(***************************************************************************)
(* A model of the mayones NES core: the iNES loader (Cartridge), the NROM   *)
(* mapper (Mapper0), the CPU memory bus (CPUMemoryBus), the 6502           *)
(* interpreter (CPU) and the host driver (main).                           *)
(*                                                                         *)
(* Byte vectors (the ROM file, prg_rom, chr_rom, ram) are held sparsely:   *)
(* a record [size, at, fill] stands for the vector of `size` bytes whose   *)
(* byte i is at[i] when i is in DOMAIN at and fill otherwise.              *)
(*                                                                         *)
(* Behaviour the C++ standard leaves undefined (a null shared_ptr          *)
(* dereference, an out-of-range index, a function that falls off its end,  *)
(* a call through a null member pointer) is recorded in `ub` and resolved  *)
(* nondeterministically: the process dies, or it goes on with a value      *)
(* drawn from UBBytes.                                                     *)
(***************************************************************************)
EXTENDS Integers, Sequences, FiniteSets, TLC

VARIABLES
    cart,       \* the Cartridge object made by main (its mapper's vectors) and
                \* the file it was made from
    cartridge,  \* CPUMemoryBus::cartridge, the bus's shared_ptr: "null" or "cart"
    ram,        \* CPUMemoryBus::ram
    cpu,        \* the CPU object's fields
    host_pc,    \* where main is
    cycles,     \* main's local `cycles`
    error,      \* the error the session reported ("none" when none)
    ub,         \* the kinds of undefined behaviour executed so far
    ret,        \* what the last step() returned
    opcode,     \* the byte the last step() fetched (-1 before the first)
    last_read,  \* the last host-level bus.read: its address and result
    wlog,       \* every bus.write so far, in order: <<address, data>>
    build,      \* what the build chose where the language leaves a choice
    hist        \* what the CPU was before its last calls (see Track)

vars == <<cart, cartridge, ram, cpu, host_pc, cycles, error, ub, ret, opcode,
          last_read, wlog, build, hist>>

----------------------------------------------------------------------------
(* Bounds of the model. *)

\* main's `cycles` input (the number of step() calls) is at most MaxCycles
MaxCycles == 4
\* host-level bus.write calls in a run of the bus specification
MaxWrites == 2
\* most bytes pushed on the stack before they are popped
MaxPush == 256

----------------------------------------------------------------------------
(* Fixed-width integer helpers. *)

Byte == 0 .. 255

\* a & b, a | b, a ^ b on non-negative values
RECURSIVE BitAnd(_, _)
BitAnd(a, b) ==
    IF a = 0 \/ b = 0 THEN 0
    ELSE (a % 2) * (b % 2) + 2 * BitAnd(a \div 2, b \div 2)

BitOr(a, b) == a + b - BitAnd(a, b)
BitXor(a, b) == a + b - 2 * BitAnd(a, b)

\* conversion to uint8_t / uint16_t
U8(n) == n % 256
U16(n) == n % 65536

----------------------------------------------------------------------------
(* Sparse byte vectors. *)

VecAt(v, i) == IF i \in DOMAIN v.at THEN v.at[i] ELSE v.fill

VecPut(v, i, d) ==
    [v EXCEPT !.at = [j \in (DOMAIN v.at) \cup {i} |-> IF j = i THEN d ELSE v.at[j]]]

\* the vector of n zero bytes overwritten by bytes from..from+n-1 of src:
\* std::vector::resize(n) followed by stream.read(data(), n)
VecSlice(src, from, n) ==
    [size |-> n,
     at |-> [i \in {j - from : j \in {k \in DOMAIN src.at : k >= from /\ k < from + n}}
                |-> src.at[i + from]],
     fill |-> src.fill]

EmptyVec == [size |-> 0, at |-> <<>>, fill |-> 0]

----------------------------------------------------------------------------
(* Mapper0 and the iNES loader. *)

HEADER_SIZE == 16

\* Mapper0::Mapper0(): both vectors empty
EmptyMapper == [prg_rom |-> EmptyVec, chr_rom |-> EmptyVec]

\* Mapper0::read. Result: the byte, and the undefined behaviour executed, if any
\* ("none"); ubv is the byte an undefined read yields.
Mapper0_read(mapper, address, ubv) ==
    IF address >= 32768 /\ address <= 65535
    THEN LET i == address % 16384     \* address & 0x3FFF
         IN  IF i < mapper.prg_rom.size
             THEN [v |-> VecAt(mapper.prg_rom, i), ub |-> "none"]
             ELSE [v |-> ubv, ub |-> "prg_rom_out_of_range"]
    ELSE IF address >= 0 /\ address <= 8191
    THEN IF address < mapper.chr_rom.size
         THEN [v |-> VecAt(mapper.chr_rom, address), ub |-> "none"]
         ELSE [v |-> ubv, ub |-> "chr_rom_out_of_range"]
    ELSE [v |-> ubv, ub |-> "mapper_read_no_return"]

\* header.title equals "NES\x1A"
TitleOk(f) ==
    /\ VecAt(f, 0) = 78
    /\ VecAt(f, 1) = 69
    /\ VecAt(f, 2) = 83
    /\ VecAt(f, 3) = 26

\* Cartridge::Cartridge(rom_path) on the file f. outcome: "returned" (the
\* constructor returned, the object exists), "exception" (it threw to the
\* caller) or "terminate" (std::terminate). error: what it detected and printed.
\* the loader checking the mapper number before the declared sizes
Cartridge_MapperFirst(f) ==
    IF ~f.exists
    THEN [outcome |-> "exception", error |-> "InvalidPath", mapper |-> EmptyMapper]
    ELSE IF ~f.readable
    THEN [outcome |-> "returned", error |-> "InvalidPath", mapper |-> EmptyMapper]
    ELSE IF f.size < HEADER_SIZE
    THEN [outcome |-> "returned", error |-> "MalformedROM", mapper |-> EmptyMapper]
    ELSE IF ~TitleOk(f)
    THEN [outcome |-> "returned", error |-> "InvalidMagic", mapper |-> EmptyMapper]
    ELSE LET prg_rom_size == 16 * 1024 * VecAt(f, 4)
             chr_rom_size == 8 * 1024 * VecAt(f, 5)
             flags6 == VecAt(f, 6)
             flags7 == VecAt(f, 7)
             mapper_number == BitOr(flags6 \div 16, BitAnd(flags7, 240))
         IN  IF mapper_number # 0
             THEN [outcome |-> "terminate", error |-> "UnsupportedMapper",
                   mapper |-> EmptyMapper]
             ELSE IF HEADER_SIZE + prg_rom_size + chr_rom_size # f.size
             THEN [outcome |-> "returned", error |-> "MalformedROM",
                   mapper |-> EmptyMapper]
             ELSE [outcome |-> "returned", error |-> "none",
                   mapper |-> [prg_rom |-> VecSlice(f, HEADER_SIZE, prg_rom_size),
                               chr_rom |-> VecSlice(f, HEADER_SIZE + prg_rom_size,
                                                    chr_rom_size)]]

Cartridge(f) ==
    IF ~f.exists
    THEN [outcome |-> "exception", error |-> "InvalidPath", mapper |-> EmptyMapper]
    ELSE IF ~f.readable
    THEN [outcome |-> "returned", error |-> "InvalidPath", mapper |-> EmptyMapper]
    ELSE IF f.size < HEADER_SIZE
    THEN [outcome |-> "returned", error |-> "MalformedROM", mapper |-> EmptyMapper]
    ELSE IF ~TitleOk(f)
    THEN [outcome |-> "returned", error |-> "InvalidMagic", mapper |-> EmptyMapper]
    ELSE LET prg_rom_size == 16 * 1024 * VecAt(f, 4)
             chr_rom_size == 8 * 1024 * VecAt(f, 5)
             flags6 == VecAt(f, 6)
             flags7 == VecAt(f, 7)
             mapper_number == BitOr(flags6 \div 16, BitAnd(flags7, 240))
         IN  IF HEADER_SIZE + prg_rom_size + chr_rom_size # f.size
             THEN [outcome |-> "returned", error |-> "MalformedROM",
                   mapper |-> EmptyMapper]
             ELSE IF mapper_number # 0
             THEN [outcome |-> "terminate", error |-> "UnsupportedMapper",
                   mapper |-> EmptyMapper]
             ELSE [outcome |-> "returned", error |-> "none",
                   mapper |-> [prg_rom |-> VecSlice(f, HEADER_SIZE, prg_rom_size),
                               chr_rom |-> VecSlice(f, HEADER_SIZE + prg_rom_size,
                                                    chr_rom_size)]]

----------------------------------------------------------------------------
(* CPUMemoryBus.  A machine m is the record threaded through a call: the    *)
(* state it changes (cpu, ram, ub, wlog), whether it executed undefined     *)
(* behaviour (hit) and the last kind of it (kind), and the byte an          *)
(* undefined read yields in it (ubv).                                       *)

NoteUB(m, kind) ==
    IF kind = "none" THEN m
    ELSE [m EXCEPT !.ub = @ \cup {kind}, !.hit = TRUE, !.kind = kind]

\* Cartridge::read through the bus's shared_ptr
Cartridge_read(m, address) ==
    IF cartridge = "null"
    THEN [v |-> m.ubv, ub |-> "null_cartridge"]
    ELSE Mapper0_read(cart.mapper, address, m.ubv)

\* CPUMemoryBus::read. Result: [v |-> the byte read, m |-> the machine after]
bus_read(m, address) ==
    IF address >= 0 /\ address <= 8191
    THEN [v |-> VecAt(m.ram, address % 2048), m |-> m]
    ELSE IF address >= 8192 /\ address <= 16383
    THEN [v |-> 0, m |-> m]
    ELSE IF address >= 16384 /\ address <= 16407
    THEN [v |-> 0, m |-> m]
    ELSE IF address >= 16408 /\ address <= 16415
    THEN [v |-> 0, m |-> m]
    ELSE IF address >= 16416 /\ address <= 65535
    THEN LET r == Cartridge_read(m, address)
         IN  [v |-> r.v, m |-> NoteUB(m, r.ub)]
    ELSE [v |-> 0, m |-> m]

\* bus_write with the RAM index left unmasked (ram[address])
bus_write_NoMirror(m, address, data) ==
    LET logged == [m EXCEPT !.wlog = Append(@, <<address, data>>)]
    IN  IF address >= 0 /\ address <= 8191
        THEN [logged EXCEPT !.ram = VecPut(@, address, data)]
        ELSE IF address >= 16416 /\ address <= 65535 /\ cartridge = "null"
        THEN NoteUB(logged, "null_cartridge")
        ELSE logged

\* bus_write that stores writes made in the PPU window in RAM
bus_write_PpuToRam(m, address, data) ==
    LET logged == [m EXCEPT !.wlog = Append(@, <<address, data>>)]
    IN  IF address >= 0 /\ address <= 16383
        THEN [logged EXCEPT !.ram = VecPut(@, address % 2048, data)]
        ELSE IF address >= 16416 /\ address <= 65535 /\ cartridge = "null"
        THEN NoteUB(logged, "null_cartridge")
        ELSE logged

\* CPUMemoryBus::write. Mapper0::write does nothing; the call through a null
\* shared_ptr is undefined.
bus_write(m, address, data) ==
    LET logged == [m EXCEPT !.wlog = Append(@, <<address, data>>)]
    IN  IF address >= 0 /\ address <= 8191
        THEN [logged EXCEPT !.ram = VecPut(@, address % 2048, data)]
        ELSE IF address >= 8192 /\ address <= 16383 THEN logged
        ELSE IF address = 16404 THEN logged
        ELSE IF address >= 16384 /\ address <= 16407 THEN logged
        ELSE IF address >= 16408 /\ address <= 16415 THEN logged
        ELSE IF address >= 16416 /\ address <= 65535
        THEN IF cartridge = "null" THEN NoteUB(logged, "null_cartridge") ELSE logged
        ELSE logged

----------------------------------------------------------------------------
(* CPU: constants and the decode table. *)

CARRY == 1
ZERO == 2
INTERRUPT == 4
DECIMAL == 8
BREAK == 16
UNUSED == 32
OVERFLOW_ == 64
NEGATIVE == 128

STACK_BASE_ADDRESS == 256
NMI_VECTOR_ADDRESS == 65530
RESET_VECTOR_ADDRESS == 65532
IRQ_VECTOR_ADDRESS == 65534

\* the number of elements of CPU::INSTRUCTIONS
TableSize == 255

Ins(mnemonic, addr_mode, cycles_, check_page_cross, func) ==
    [mnemonic |-> mnemonic, addr_mode |-> addr_mode, cycles |-> cycles_,
     check_page_cross |-> check_page_cross, func |-> func]

\* CPU::Instruction::Instruction(), the value of an entry written {}
NullIns == Ins("", "NONE", 0, FALSE, "nullptr")

\* INSTRUCTIONS[k + 1] is the entry of opcode k
INSTRUCTIONS == <<
    Ins("BRK", "IMPLIED", 7, FALSE, "brk"),   \* 00
    Ins("ORA", "X_INDIRECT", 6, FALSE, "ora"),   \* 01
    NullIns, NullIns, NullIns,
    Ins("ORA", "ZEROPAGE", 3, FALSE, "ora"),   \* 05
    Ins("ASL", "ZEROPAGE", 5, FALSE, "asl"),   \* 06
    NullIns,
    Ins("PHP", "IMPLIED", 3, FALSE, "php"),   \* 08
    Ins("ORA", "IMMEDIATE", 2, FALSE, "ora"),   \* 09
    Ins("ASL", "ACCUMULATOR", 2, FALSE, "asl"),   \* 0A
    NullIns, NullIns,
    Ins("ORA", "ABSOLUTE", 4, FALSE, "ora"),   \* 0D
    Ins("ASL", "ABSOLUTE", 6, FALSE, "asl"),   \* 0E
    NullIns,
    Ins("BPL", "RELATIVE", 2, FALSE, "bpl"),   \* 10
    Ins("ORA", "INDIRECT_Y", 5, TRUE, "ora"),   \* 11
    NullIns, NullIns, NullIns,
    Ins("ORA", "ZEROPAGE_X", 4, FALSE, "ora"),   \* 15
    Ins("ASL", "ZEROPAGE_X", 6, FALSE, "asl"),   \* 16
    NullIns,
    Ins("CLC", "IMPLIED", 2, FALSE, "clc"),   \* 18
    Ins("ORA", "ABSOLUTE_Y", 4, TRUE, "ora"),   \* 19
    NullIns, NullIns, NullIns,
    Ins("ORA", "ABSOLUTE_X", 4, TRUE, "ora"),   \* 1D
    Ins("ASL", "ABSOLUTE_X", 7, FALSE, "asl"),   \* 1E
    NullIns,
    Ins("JSR", "ABSOLUTE", 6, FALSE, "jsr"),   \* 20
    Ins("AND", "X_INDIRECT", 6, FALSE, "and_"),   \* 21
    NullIns, NullIns,
    Ins("BIT", "ZEROPAGE", 3, FALSE, "bit"),   \* 24
    Ins("AND", "ZEROPAGE", 3, FALSE, "and_"),   \* 25
    Ins("ROL", "ZEROPAGE", 5, FALSE, "rol"),   \* 26
    NullIns,
    Ins("PLP", "IMPLIED", 4, FALSE, "plp"),   \* 28
    Ins("AND", "IMMEDIATE", 2, FALSE, "and_"),   \* 29
    Ins("ROL", "ACCUMULATOR", 2, FALSE, "rol"),   \* 2A
    NullIns,
    Ins("BIT", "ABSOLUTE", 4, FALSE, "bit"),   \* 2C
    Ins("AND", "ABSOLUTE", 4, FALSE, "and_"),   \* 2D
    Ins("ROL", "ABSOLUTE", 6, FALSE, "rol"),   \* 2E
    NullIns,
    Ins("BMI", "RELATIVE", 2, FALSE, "bmi"),   \* 30
    Ins("AND", "INDIRECT_Y", 5, TRUE, "and_"),   \* 31
    NullIns, NullIns, NullIns,
    Ins("AND", "ZEROPAGE_X", 4, FALSE, "and_"),   \* 35
    Ins("ROL", "ZEROPAGE_X", 6, FALSE, "rol"),   \* 36
    NullIns,
    Ins("SEC", "IMPLIED", 2, FALSE, "sec"),   \* 38
    Ins("AND", "ABSOLUTE_Y", 4, TRUE, "and_"),   \* 39
    NullIns, NullIns, NullIns,
    Ins("AND", "ABSOLUTE_X", 4, TRUE, "and_"),   \* 3D
    Ins("ROL", "ABSOLUTE_X", 7, FALSE, "rol"),   \* 3E
    NullIns,
    Ins("RTI", "IMPLIED", 6, FALSE, "rti"),   \* 40
    Ins("EOR", "X_INDIRECT", 6, FALSE, "eor"),   \* 41
    NullIns, NullIns, NullIns,
    Ins("EOR", "ZEROPAGE", 3, FALSE, "eor"),   \* 45
    Ins("LSR", "ZEROPAGE", 5, FALSE, "lsr"),   \* 46
    NullIns,
    Ins("PHA", "IMPLIED", 3, FALSE, "pha"),   \* 48
    Ins("EOR", "IMMEDIATE", 2, FALSE, "eor"),   \* 49
    Ins("LSR", "ACCUMULATOR", 2, FALSE, "lsr"),   \* 4A
    NullIns,
    Ins("JMP", "ABSOLUTE", 3, FALSE, "jmp"),   \* 4C
    Ins("EOR", "ABSOLUTE", 4, FALSE, "eor"),   \* 4D
    Ins("LSR", "ABSOLUTE", 6, FALSE, "lsr"),   \* 4E
    NullIns,
    Ins("BVC", "RELATIVE", 2, FALSE, "bvc"),   \* 50
    Ins("EOR", "INDIRECT_Y", 5, TRUE, "eor"),   \* 51
    NullIns, NullIns, NullIns,
    Ins("EOR", "ZEROPAGE_X", 4, FALSE, "eor"),   \* 55
    Ins("LSR", "ZEROPAGE_X", 6, FALSE, "lsr"),   \* 56
    NullIns,
    Ins("CLI", "IMPLIED", 2, FALSE, "cli"),   \* 58
    Ins("EOR", "ABSOLUTE_Y", 4, TRUE, "eor"),   \* 59
    NullIns, NullIns, NullIns,
    Ins("EOR", "ABSOLUTE_X", 4, TRUE, "eor"),   \* 5D
    Ins("LSR", "ABSOLUTE_X", 7, FALSE, "lsr"),   \* 5E
    NullIns,
    Ins("RTS", "IMPLIED", 6, FALSE, "rts"),   \* 60
    Ins("ADC", "X_INDIRECT", 6, FALSE, "adc"),   \* 61
    NullIns, NullIns, NullIns,
    Ins("ADC", "ZEROPAGE", 3, FALSE, "adc"),   \* 65
    Ins("ROR", "ZEROPAGE", 5, FALSE, "ror"),   \* 66
    NullIns,
    Ins("PLA", "IMPLIED", 4, FALSE, "pla"),   \* 68
    Ins("ADC", "IMMEDIATE", 2, FALSE, "adc"),   \* 69
    Ins("ROR", "ACCUMULATOR", 2, FALSE, "ror"),   \* 6A
    NullIns,
    Ins("JMP", "INDIRECT", 5, FALSE, "jmp"),   \* 6C
    Ins("ADC", "ABSOLUTE", 4, FALSE, "adc"),   \* 6D
    Ins("ROR", "ABSOLUTE", 6, FALSE, "ror"),   \* 6E
    NullIns,
    Ins("BVS", "RELATIVE", 2, FALSE, "bvs"),   \* 70
    Ins("ADC", "INDIRECT_Y", 5, TRUE, "adc"),   \* 71
    NullIns, NullIns, NullIns,
    Ins("ADC", "ZEROPAGE_X", 4, FALSE, "adc"),   \* 75
    Ins("ROR", "ZEROPAGE_X", 6, FALSE, "ror"),   \* 76
    NullIns,
    Ins("SEI", "IMPLIED", 2, FALSE, "sei"),   \* 78
    Ins("ADC", "ABSOLUTE_Y", 4, TRUE, "adc"),   \* 79
    NullIns, NullIns, NullIns,
    Ins("ADC", "ABSOLUTE_X", 4, TRUE, "adc"),   \* 7D
    Ins("ROR", "ABSOLUTE_X", 7, FALSE, "ror"),   \* 7E
    NullIns, NullIns,
    Ins("STA", "X_INDIRECT", 6, FALSE, "sta"),   \* 81
    NullIns, NullIns,
    Ins("STY", "ZEROPAGE", 3, FALSE, "sty"),   \* 84
    Ins("STA", "ZEROPAGE", 3, FALSE, "sta"),   \* 85
    Ins("STX", "ZEROPAGE", 3, FALSE, "stx"),   \* 86
    NullIns,
    Ins("DEY", "IMPLIED", 2, FALSE, "dey"),   \* 88
    NullIns,
    Ins("TXA", "IMPLIED", 2, FALSE, "txa"),   \* 8A
    NullIns,
    Ins("STY", "ABSOLUTE", 4, FALSE, "sty"),   \* 8C
    Ins("STA", "ABSOLUTE", 4, FALSE, "sta"),   \* 8D
    Ins("STX", "ABSOLUTE", 4, FALSE, "stx"),   \* 8E
    NullIns,
    Ins("BCC", "RELATIVE", 2, FALSE, "bcc"),   \* 90
    Ins("STA", "INDIRECT_Y", 6, FALSE, "sta"),   \* 91
    NullIns, NullIns,
    Ins("STY", "ZEROPAGE_X", 4, FALSE, "sty"),   \* 94
    Ins("STA", "ZEROPAGE_X", 4, FALSE, "sta"),   \* 95
    Ins("STX", "ZEROPAGE_Y", 4, FALSE, "stx"),   \* 96
    NullIns,
    Ins("TYA", "IMPLIED", 2, FALSE, "tya"),   \* 98
    Ins("STA", "ABSOLUTE_Y", 5, FALSE, "sta"),   \* 99
    Ins("TXS", "IMPLIED", 2, FALSE, "txs"),   \* 9A
    NullIns, NullIns,
    Ins("STA", "ABSOLUTE_X", 5, FALSE, "sta"),   \* 9D
    NullIns, NullIns,
    Ins("LDY", "IMMEDIATE", 2, FALSE, "ldy"),   \* A0
    Ins("LDA", "X_INDIRECT", 6, FALSE, "lda"),   \* A1
    Ins("LDX", "IMMEDIATE", 2, FALSE, "ldx"),   \* A2
    NullIns,
    Ins("LDY", "ZEROPAGE", 3, FALSE, "ldy"),   \* A4
    Ins("LDA", "ZEROPAGE", 3, FALSE, "lda"),   \* A5
    Ins("LDX", "ZEROPAGE", 3, FALSE, "ldx"),   \* A6
    NullIns,
    Ins("TAY", "IMPLIED", 2, FALSE, "tay"),   \* A8
    Ins("LDA", "IMMEDIATE", 2, FALSE, "lda"),   \* A9
    Ins("TAX", "IMPLIED", 2, FALSE, "tax"),   \* AA
    NullIns,
    Ins("LDY", "ABSOLUTE", 4, FALSE, "ldy"),   \* AC
    Ins("LDA", "ABSOLUTE", 4, FALSE, "lda"),   \* AD
    Ins("LDX", "ABSOLUTE", 4, FALSE, "ldx"),   \* AE
    NullIns,
    Ins("BCS", "RELATIVE", 2, FALSE, "bcs"),   \* B0
    Ins("LDA", "INDIRECT_Y", 5, TRUE, "lda"),   \* B1
    NullIns, NullIns,
    Ins("LDY", "ZEROPAGE_X", 4, FALSE, "ldy"),   \* B4
    Ins("LDA", "ZEROPAGE_X", 4, FALSE, "lda"),   \* B5
    Ins("LDX", "ZEROPAGE_Y", 4, FALSE, "ldx"),   \* B6
    NullIns,
    Ins("CLV", "IMPLIED", 2, FALSE, "clv"),   \* B8
    Ins("LDA", "ABSOLUTE_Y", 4, TRUE, "lda"),   \* B9
    Ins("TSX", "IMPLIED", 2, FALSE, "tsx"),   \* BA
    NullIns,
    Ins("LDY", "ABSOLUTE_X", 4, TRUE, "ldy"),   \* BC
    Ins("LDA", "ABSOLUTE_X", 4, TRUE, "lda"),   \* BD
    Ins("LDX", "ABSOLUTE_Y", 4, TRUE, "ldx"),   \* BE
    NullIns,
    Ins("CPY", "IMMEDIATE", 2, FALSE, "cpy"),   \* C0
    Ins("CMP", "X_INDIRECT", 6, FALSE, "cmp"),   \* C1
    NullIns, NullIns,
    Ins("CPY", "ZEROPAGE", 3, FALSE, "cpy"),   \* C4
    Ins("CMP", "ZEROPAGE", 3, FALSE, "cmp"),   \* C5
    Ins("DEC", "ZEROPAGE", 5, FALSE, "dec"),   \* C6
    NullIns,
    Ins("INY", "IMPLIED", 2, FALSE, "iny"),   \* C8
    Ins("CMP", "IMMEDIATE", 2, FALSE, "cmp"),   \* C9
    Ins("DEX", "IMPLIED", 2, FALSE, "dex"),   \* CA
    NullIns,
    Ins("CPY", "ABSOLUTE", 4, FALSE, "cpy"),   \* CC
    Ins("CMP", "ABSOLUTE", 4, FALSE, "cmp"),   \* CD
    Ins("DEC", "ABSOLUTE", 6, FALSE, "dec"),   \* CE
    NullIns,
    Ins("BNE", "RELATIVE", 2, FALSE, "bne"),   \* D0
    Ins("CMP", "INDIRECT_Y", 5, TRUE, "cmp"),   \* D1
    NullIns, NullIns, NullIns,
    Ins("CMP", "ZEROPAGE_X", 4, FALSE, "cmp"),   \* D5
    Ins("DEC", "ZEROPAGE_X", 6, FALSE, "dec"),   \* D6
    NullIns,
    Ins("CLD", "IMPLIED", 2, FALSE, "cld"),   \* D8
    Ins("CMP", "ABSOLUTE_Y", 4, TRUE, "cmp"),   \* D9
    NullIns, NullIns, NullIns,
    Ins("CMP", "ABSOLUTE_X", 4, TRUE, "cmp"),   \* DD
    Ins("DEC", "ABSOLUTE_X", 7, FALSE, "dec"),   \* DE
    NullIns,
    Ins("CPX", "IMMEDIATE", 2, FALSE, "cpx"),   \* E0
    Ins("SBC", "X_INDIRECT", 6, FALSE, "sbc"),   \* E1
    NullIns, NullIns,
    Ins("CPX", "ZEROPAGE", 3, FALSE, "cpx"),   \* E4
    Ins("SBC", "ZEROPAGE", 3, FALSE, "sbc"),   \* E5
    Ins("INC", "ZEROPAGE", 5, FALSE, "inc"),   \* E6
    NullIns,
    Ins("INX", "IMPLIED", 2, FALSE, "inx"),   \* E8
    Ins("SBC", "IMMEDIATE", 2, FALSE, "sbc"),   \* E9
    Ins("NOP", "IMPLIED", 2, FALSE, "nop"),   \* EA
    NullIns,
    Ins("CPX", "ABSOLUTE", 4, FALSE, "cpx"),   \* EC
    Ins("SBC", "ABSOLUTE", 4, FALSE, "sbc"),   \* ED
    Ins("INC", "ABSOLUTE", 6, FALSE, "inc"),   \* EE
    NullIns,
    Ins("BEQ", "RELATIVE", 2, FALSE, "beq"),   \* F0
    Ins("SBC", "INDIRECT_Y", 5, TRUE, "sbc"),   \* F1
    NullIns, NullIns, NullIns,
    Ins("SBC", "ZEROPAGE_X", 4, FALSE, "sbc"),   \* F5
    Ins("INC", "ZEROPAGE_X", 6, FALSE, "inc"),   \* F6
    NullIns,
    Ins("SED", "IMPLIED", 2, FALSE, "sed"),   \* F8
    Ins("SBC", "ABSOLUTE_Y", 4, TRUE, "sbc"),   \* F9
    NullIns, NullIns, NullIns,
    Ins("SBC", "ABSOLUTE_X", 4, TRUE, "sbc"),   \* FD
    Ins("INC", "ABSOLUTE_X", 7, FALSE, "inc")   \* FE
>>

----------------------------------------------------------------------------
(* CPU: helpers. Every operation takes the machine m and gives the machine  *)
(* after it; one that also returns a value gives [v, m].                   *)

\* CPU::CPU
NewCPU ==
    [a |-> 0, x |-> 0, y |-> 0, p |-> 0, sp |-> 0, pc |-> 0,
     addr_mode |-> "NONE", operand_addr |-> 0, curr_cycle |-> 0,
     total_cycles |-> 0, page_crossed |-> FALSE]

push_stack(m, data) ==
    LET w == bus_write(m, BitOr(STACK_BASE_ADDRESS, m.cpu.sp), data)
    IN  [w EXCEPT !.cpu.sp = U8(@ + 255)]

\* pop_stack that reads before it increments SP
pop_stack_PostIncrement(m) ==
    LET r == bus_read(m, BitOr(STACK_BASE_ADDRESS, m.cpu.sp))
    IN  [v |-> r.v, m |-> [r.m EXCEPT !.cpu.sp = U8(@ + 1)]]

pop_stack(m) ==
    LET m1 == [m EXCEPT !.cpu.sp = U8(@ + 1)]
    IN  bus_read(m1, BitOr(STACK_BASE_ADDRESS, m1.cpu.sp))

set_flag(m, flag, value) ==
    IF value # 0
    THEN [m EXCEPT !.cpu.p = BitOr(@, flag)]
    ELSE [m EXCEPT !.cpu.p = BitAnd(@, 255 - flag)]

set_nz_flags(m, data) ==
    LET z == set_flag(m, ZERO, IF data = 0 THEN 1 ELSE 0)
    IN  set_flag(z, NEGATIVE, (data \div 128) % 2)

is_page_crossed(address1, address2) ==
    BitAnd(address1, 65280) # BitAnd(address2, 65280)

\* read_wrapped_page with the high byte always read at address + 1
read_wrapped_page_NoWrap(m, address) ==
    LET lo == bus_read(m, address)
        hi == bus_read(lo.m, U16(address + 1))
    IN  [v |-> BitOr(lo.v, hi.v * 256), m |-> hi.m]

read_wrapped_page(m, address) ==
    LET lo == bus_read(m, address)
        hi == IF is_page_crossed(address, U16(address + 1))
              THEN bus_read(lo.m, BitAnd(address, 65280))
              ELSE bus_read(lo.m, U16(address + 1))
    IN  [v |-> BitOr(lo.v, hi.v * 256), m |-> hi.m]

\* resolve_immediate that leaves PC on the operand byte
resolve_immediate_NoAdvance(m) == [v |-> m.cpu.pc, m |-> m]

resolve_immediate(m) ==
    [v |-> m.cpu.pc, m |-> [m EXCEPT !.cpu.pc = U16(@ + 1)]]

\* resolve_zeropage without the mask to page zero
resolve_zeropage_NoWrap(m, offset) ==
    LET r == bus_read(m, m.cpu.pc)
    IN  [v |-> r.v + offset, m |-> [r.m EXCEPT !.cpu.pc = U16(@ + 1)]]

resolve_zeropage(m, offset) ==
    LET r == bus_read(m, m.cpu.pc)
    IN  [v |-> BitAnd(r.v + offset, 255), m |-> [r.m EXCEPT !.cpu.pc = U16(@ + 1)]]

\* resolve_absolute that sets page_crossed on a cross and never clears it
resolve_absolute_StickyCross(m, offset) ==
    LET lo == bus_read(m, m.cpu.pc)
        hi == bus_read(lo.m, U16(m.cpu.pc + 1))
        base_addr == BitOr(lo.v, hi.v * 256)
        effective_addr == BitAnd(base_addr + offset, 65535)
    IN  [v |-> effective_addr,
         m |-> [hi.m EXCEPT !.cpu.pc = U16(@ + 2),
                            !.cpu.page_crossed =
                                @ \/ is_page_crossed(base_addr, effective_addr)]]

resolve_absolute(m, offset) ==
    LET lo == bus_read(m, m.cpu.pc)
        hi == bus_read(lo.m, U16(m.cpu.pc + 1))
        base_addr == BitOr(lo.v, hi.v * 256)
        effective_addr == BitAnd(base_addr + offset, 65535)
    IN  [v |-> effective_addr,
         m |-> [hi.m EXCEPT !.cpu.pc = U16(@ + 2),
                            !.cpu.page_crossed =
                                is_page_crossed(base_addr, effective_addr)]]

\* resolve_indirect with the pointer read as an ordinary 16-bit word
resolve_indirect_Linear(m) ==
    LET lo == bus_read(m, m.cpu.pc)
        hi == bus_read(lo.m, U16(m.cpu.pc + 1))
        addr == BitOr(lo.v, hi.v * 256)
        plo == bus_read(hi.m, addr)
        phi == bus_read(plo.m, U16(addr + 1))
    IN  [v |-> BitOr(plo.v, phi.v * 256), m |-> [phi.m EXCEPT !.cpu.pc = U16(@ + 2)]]

resolve_indirect(m) ==
    LET lo == bus_read(m, m.cpu.pc)
        hi == bus_read(lo.m, U16(m.cpu.pc + 1))
        addr == BitOr(lo.v, hi.v * 256)
    IN  read_wrapped_page([hi.m EXCEPT !.cpu.pc = U16(@ + 2)], addr)

resolve_preindex_indirect(m) ==
    LET r == bus_read(m, m.cpu.pc)
        zeropage_addr == BitAnd(r.v + m.cpu.x, 255)
    IN  read_wrapped_page([r.m EXCEPT !.cpu.pc = U16(@ + 1)], zeropage_addr)

resolve_postindex_indirect(m) ==
    LET r == bus_read(m, m.cpu.pc)
        b == read_wrapped_page([r.m EXCEPT !.cpu.pc = U16(@ + 1)], r.v)
        base_addr == b.v
        effective_addr == BitAnd(base_addr + m.cpu.y, 65535)
    IN  [v |-> effective_addr,
         m |-> [b.m EXCEPT !.cpu.page_crossed =
                               is_page_crossed(base_addr, effective_addr)]]

resolve_relative(m) == resolve_immediate(m)

get_operand(m) ==
    IF m.cpu.addr_mode = "ACCUMULATOR"
    THEN [v |-> m.cpu.a, m |-> m]
    ELSE bus_read(m, m.cpu.operand_addr)

store(m, data) ==
    IF m.cpu.addr_mode = "ACCUMULATOR"
    THEN [m EXCEPT !.cpu.a = data]
    ELSE bus_write(m, m.cpu.operand_addr, data)

----------------------------------------------------------------------------
(* CPU: the instruction handlers. *)

\* the 16-bit word read from the vector at address
ReadVector(m, address) ==
    LET lo == bus_read(m, address)
        hi == bus_read(lo.m, U16(address + 1))
    IN  [v |-> BitOr(lo.v, hi.v * 256), m |-> hi.m]

\* brk that pushes the low byte of the return address before the high byte
brk_LowFirst(m) ==
    LET return_addr == U16(m.cpu.pc + 1)
        m1 == [m EXCEPT !.cpu.pc = return_addr]
        m2 == push_stack(m1, BitAnd(return_addr, 255))
        m3 == push_stack(m2, return_addr \div 256)
        m4 == push_stack(m3, BitOr(m3.cpu.p, BREAK))
        m5 == [m4 EXCEPT !.cpu.p = BitOr(@, INTERRUPT)]
        vec == ReadVector(m5, IRQ_VECTOR_ADDRESS)
    IN  [vec.m EXCEPT !.cpu.pc = vec.v]

brk(m) ==
    LET return_addr == U16(m.cpu.pc + 1)
        m1 == [m EXCEPT !.cpu.pc = return_addr]
        m2 == push_stack(m1, return_addr \div 256)
        m3 == push_stack(m2, BitAnd(return_addr, 255))
        m4 == push_stack(m3, BitOr(m3.cpu.p, BREAK))
        m5 == [m4 EXCEPT !.cpu.p = BitOr(@, INTERRUPT)]
        vec == ReadVector(m5, IRQ_VECTOR_ADDRESS)
    IN  [vec.m EXCEPT !.cpu.pc = vec.v]

ora(m) ==
    LET r == get_operand(m)
        res == BitOr(m.cpu.a, r.v)
    IN  set_nz_flags([r.m EXCEPT !.cpu.a = res], res)

and_(m) ==
    LET r == get_operand(m)
        res == BitAnd(m.cpu.a, r.v)
    IN  set_nz_flags([r.m EXCEPT !.cpu.a = res], res)

eor(m) ==
    LET r == get_operand(m)
        res == BitXor(m.cpu.a, r.v)
    IN  set_nz_flags([r.m EXCEPT !.cpu.a = res], res)

asl(m) ==
    LET r == get_operand(m)
        operand == r.v
        result == BitAnd(operand * 2, 255)
        c == set_flag(r.m, CARRY, operand \div 128)
    IN  store(set_nz_flags(c, result), result)

lsr(m) ==
    LET r == get_operand(m)
        operand == r.v
        result == operand \div 2
        c == set_flag(r.m, CARRY, BitAnd(operand, 1))
    IN  store(set_nz_flags(c, result), result)

rol(m) ==
    LET r == get_operand(m)
        operand == r.v
        result == BitAnd(BitOr(operand * 2, BitAnd(r.m.cpu.p, CARRY)), 255)
        c == set_flag(r.m, CARRY, operand \div 128)
    IN  store(set_nz_flags(c, result), result)

ror(m) ==
    LET r == get_operand(m)
        operand == r.v
        result == BitAnd(BitOr(operand \div 2, BitAnd(r.m.cpu.p, CARRY) * 128), 255)
        c == set_flag(r.m, CARRY, BitAnd(operand, 1))
    IN  store(set_nz_flags(c, result), result)

bit(m) ==
    LET r == get_operand(m)
        operand == r.v
        z == set_flag(r.m, ZERO, IF BitAnd(r.m.cpu.a, operand) = 0 THEN 1 ELSE 0)
        v == set_flag(z, OVERFLOW_, BitAnd(operand \div 64, 1))
    IN  set_flag(v, NEGATIVE, operand \div 128)

php(m) == push_stack(m, BitOr(m.cpu.p, BREAK))

\* plp without the forced UNUSED bit
plp_NoUnused(m) ==
    LET r == pop_stack(m)
    IN  [r.m EXCEPT !.cpu.p = BitAnd(r.v, 255 - BREAK)]

\* plp that forces UNUSED but leaves BREAK as popped
plp_KeepBreak(m) ==
    LET r == pop_stack(m)
    IN  [r.m EXCEPT !.cpu.p = BitOr(r.v, UNUSED)]

plp(m) ==
    LET r == pop_stack(m)
    IN  [r.m EXCEPT !.cpu.p = BitOr(BitAnd(r.v, 255 - BREAK), UNUSED)]

pha(m) == push_stack(m, m.cpu.a)

pla(m) ==
    LET r == pop_stack(m)
    IN  set_nz_flags([r.m EXCEPT !.cpu.a = r.v], r.v)

clc(m) == [m EXCEPT !.cpu.p = BitAnd(@, 255 - CARRY)]
sec(m) == [m EXCEPT !.cpu.p = BitOr(@, CARRY)]
cli(m) == [m EXCEPT !.cpu.p = BitAnd(@, 255 - INTERRUPT)]
sei(m) == [m EXCEPT !.cpu.p = BitOr(@, INTERRUPT)]
clv(m) == [m EXCEPT !.cpu.p = BitAnd(@, 255 - OVERFLOW_)]
cld(m) == [m EXCEPT !.cpu.p = BitAnd(@, 255 - DECIMAL)]
sed(m) == [m EXCEPT !.cpu.p = BitOr(@, DECIMAL)]

\* the value of  pop_stack() | pop_stack() << 8 : the language does not fix
\* which operand of | is evaluated first, the build does, once for each of the
\* two places (site) the expression stands in; m.order is the build's choice
PopWord(m, site) ==
    LET first == pop_stack(m)
        second == pop_stack(first.m)
        after == [second.m EXCEPT !.site = site]
    IN  IF m.order = "left_first"
        THEN [v |-> BitOr(first.v, second.v * 256), m |-> after]
        ELSE [v |-> BitOr(second.v, first.v * 256), m |-> after]

rti(m) ==
    LET r == pop_stack(m)
        m1 == [r.m EXCEPT !.cpu.p = BitOr(r.v, UNUSED)]
        w == PopWord(m1, "rti")
    IN  [w.m EXCEPT !.cpu.pc = w.v]

rts(m) ==
    LET w == PopWord(m, "rts")
    IN  [w.m EXCEPT !.cpu.pc = U16(w.v + 1)]

jmp(m) == [m EXCEPT !.cpu.pc = m.cpu.operand_addr]

\* adc_ taking the overflow from the signs of the two inputs alone
adc__InputSigns(m, operand) ==
    LET a == m.cpu.a
        result == a + operand + BitAnd(m.cpu.p, CARRY)
        c == set_flag(m, CARRY, IF result > 255 THEN 1 ELSE 0)
        v == set_flag(c, OVERFLOW_,
                      IF BitAnd(BitXor(a, operand), 128) = 0 THEN 1 ELSE 0)
        result8 == BitAnd(result, 255)
    IN  [set_nz_flags(v, result8) EXCEPT !.cpu.a = result8]

adc_(m, operand) ==
    LET a == m.cpu.a
        result == a + operand + BitAnd(m.cpu.p, CARRY)
        c == set_flag(m, CARRY, IF result > 255 THEN 1 ELSE 0)
        v == set_flag(c, OVERFLOW_,
                      IF BitAnd(BitAnd(BitXor(a, result), BitXor(operand, result)),
                                128) \div 128 # 0
                      THEN 1 ELSE 0)
        result8 == BitAnd(result, 255)
    IN  [set_nz_flags(v, result8) EXCEPT !.cpu.a = result8]

adc(m) ==
    LET r == get_operand(m)
    IN  adc_(r.m, r.v)

\* sbc adding the two's complement of the operand
sbc_Negate(m) ==
    LET r == get_operand(m)
    IN  adc_(r.m, U8(256 - r.v))

sbc(m) ==
    LET r == get_operand(m)
    IN  adc_(r.m, BitXor(r.v, 255))

sta(m) == store(m, m.cpu.a)
stx(m) == store(m, m.cpu.x)
sty(m) == store(m, m.cpu.y)

inx(m) ==
    LET res == BitAnd(m.cpu.x + 1, 255)
    IN  set_nz_flags([m EXCEPT !.cpu.x = res], res)

dex(m) ==
    LET res == U8(m.cpu.x + 255)
    IN  set_nz_flags([m EXCEPT !.cpu.x = res], res)

iny(m) ==
    LET res == BitAnd(m.cpu.y + 1, 255)
    IN  set_nz_flags([m EXCEPT !.cpu.y = res], res)

dey(m) ==
    LET res == U8(m.cpu.y + 255)
    IN  set_nz_flags([m EXCEPT !.cpu.y = res], res)

inc(m) ==
    LET r == get_operand(m)
        result == BitAnd(r.v + 1, 255)
    IN  store(set_nz_flags(r.m, result), result)

dec(m) ==
    LET r == get_operand(m)
        result == U8(r.v + 255)
    IN  store(set_nz_flags(r.m, result), result)

txa(m) == set_nz_flags([m EXCEPT !.cpu.a = m.cpu.x], m.cpu.x)
tya(m) == set_nz_flags([m EXCEPT !.cpu.a = m.cpu.y], m.cpu.y)
txs(m) == [m EXCEPT !.cpu.sp = m.cpu.x]
tay(m) == set_nz_flags([m EXCEPT !.cpu.y = m.cpu.a], m.cpu.a)
tax(m) == set_nz_flags([m EXCEPT !.cpu.x = m.cpu.a], m.cpu.a)
tsx(m) == set_nz_flags([m EXCEPT !.cpu.x = m.cpu.sp], m.cpu.sp)

lda(m) ==
    LET r == get_operand(m)
    IN  set_nz_flags([r.m EXCEPT !.cpu.a = r.v], r.v)

ldx(m) ==
    LET r == get_operand(m)
    IN  set_nz_flags([r.m EXCEPT !.cpu.x = r.v], r.v)

ldy(m) ==
    LET r == get_operand(m)
    IN  set_nz_flags([r.m EXCEPT !.cpu.y = r.v], r.v)

\* the body shared by cmp, cpx, cpy: reg is the register compared
Compare(m, reg) ==
    LET r == get_operand(m)
        operand == r.v
        result == U8(reg + 256 - operand)
        c == set_flag(r.m, CARRY, IF reg >= operand THEN 1 ELSE 0)
    IN  set_nz_flags(c, result)

cpx(m) == Compare(m, m.cpu.x)
cpy(m) == Compare(m, m.cpu.y)
cmp(m) == Compare(m, m.cpu.a)

\* branch adding the operand as an unsigned byte
branch_Unsigned(m, condition) ==
    IF ~condition THEN m
    ELSE LET m1 == [m EXCEPT !.cpu.curr_cycle = @ + 1]
             r == get_operand(m1)
             addr == U16(r.m.cpu.pc + r.v)
         IN  [r.m EXCEPT !.cpu.page_crossed = is_page_crossed(r.m.cpu.pc, addr),
                         !.cpu.pc = addr]

branch(m, condition) ==
    IF ~condition THEN m
    ELSE LET m1 == [m EXCEPT !.cpu.curr_cycle = @ + 1]
             r == get_operand(m1)
             operand == r.v
             offset == IF BitAnd(operand, 128) = 128 THEN -(256 - operand) ELSE operand
             addr == U16(r.m.cpu.pc + offset + 65536)
         IN  [r.m EXCEPT !.cpu.page_crossed = is_page_crossed(r.m.cpu.pc, addr),
                         !.cpu.pc = addr]

bpl(m) == branch(m, BitAnd(m.cpu.p, NEGATIVE) = 0)
bmi(m) == branch(m, BitAnd(m.cpu.p, NEGATIVE) # 0)
bvc(m) == branch(m, BitAnd(m.cpu.p, OVERFLOW_) = 0)
bvs(m) == branch(m, BitAnd(m.cpu.p, OVERFLOW_) # 0)
bcc(m) == branch(m, BitAnd(m.cpu.p, CARRY) = 0)
bcs(m) == branch(m, BitAnd(m.cpu.p, CARRY) # 0)
bne(m) == branch(m, BitAnd(m.cpu.p, ZERO) = 0)
beq(m) == branch(m, BitAnd(m.cpu.p, ZERO) # 0)

jsr(m) ==
    LET return_addr == U16(m.cpu.pc + 65535)
        m1 == push_stack(m, return_addr \div 256)
        m2 == push_stack(m1, BitAnd(return_addr, 255))
    IN  [m2 EXCEPT !.cpu.pc = m2.cpu.operand_addr]

nop(m) == m

----------------------------------------------------------------------------
(* CPU: reset, step, execute. *)

\* (this->*instruction.func)(): a call through nullptr is undefined; when the
\* process survives it, no handler has run
Call(m, func) ==
    CASE func = "brk" -> brk(m)   [] func = "ora" -> ora(m)
      [] func = "and_" -> and_(m) [] func = "eor" -> eor(m)
      [] func = "asl" -> asl(m)   [] func = "lsr" -> lsr(m)
      [] func = "rol" -> rol(m)   [] func = "ror" -> ror(m)
      [] func = "bit" -> bit(m)   [] func = "php" -> php(m)
      [] func = "plp" -> plp(m)   [] func = "pha" -> pha(m)
      [] func = "pla" -> pla(m)   [] func = "clc" -> clc(m)
      [] func = "sec" -> sec(m)   [] func = "cli" -> cli(m)
      [] func = "sei" -> sei(m)   [] func = "clv" -> clv(m)
      [] func = "cld" -> cld(m)   [] func = "sed" -> sed(m)
      [] func = "rti" -> rti(m)   [] func = "rts" -> rts(m)
      [] func = "jmp" -> jmp(m)   [] func = "adc" -> adc(m)
      [] func = "sbc" -> sbc(m)   [] func = "sta" -> sta(m)
      [] func = "stx" -> stx(m)   [] func = "sty" -> sty(m)
      [] func = "inx" -> inx(m)   [] func = "dex" -> dex(m)
      [] func = "iny" -> iny(m)   [] func = "dey" -> dey(m)
      [] func = "inc" -> inc(m)   [] func = "dec" -> dec(m)
      [] func = "txa" -> txa(m)   [] func = "tya" -> tya(m)
      [] func = "txs" -> txs(m)   [] func = "tay" -> tay(m)
      [] func = "tax" -> tax(m)   [] func = "tsx" -> tsx(m)
      [] func = "lda" -> lda(m)   [] func = "ldx" -> ldx(m)
      [] func = "ldy" -> ldy(m)   [] func = "cpx" -> cpx(m)
      [] func = "cpy" -> cpy(m)   [] func = "cmp" -> cmp(m)
      [] func = "bpl" -> bpl(m)   [] func = "bmi" -> bmi(m)
      [] func = "bvc" -> bvc(m)   [] func = "bvs" -> bvs(m)
      [] func = "bcc" -> bcc(m)   [] func = "bcs" -> bcs(m)
      [] func = "bne" -> bne(m)   [] func = "beq" -> beq(m)
      [] func = "jsr" -> jsr(m)   [] func = "nop" -> nop(m)
      [] func = "nullptr" -> NoteUB(m, "null_handler")

\* the switch of CPU::execute: the operand address of the mode
Resolve(m, mode) ==
    CASE mode = "IMMEDIATE" -> resolve_immediate(m)
      [] mode = "ABSOLUTE" -> resolve_absolute(m, 0)
      [] mode = "ZEROPAGE" -> resolve_zeropage(m, 0)
      [] mode = "ABSOLUTE_X" -> resolve_absolute(m, m.cpu.x)
      [] mode = "ABSOLUTE_Y" -> resolve_absolute(m, m.cpu.y)
      [] mode = "ZEROPAGE_X" -> resolve_zeropage(m, m.cpu.x)
      [] mode = "ZEROPAGE_Y" -> resolve_zeropage(m, m.cpu.y)
      [] mode = "INDIRECT" -> resolve_indirect(m)
      [] mode = "X_INDIRECT" -> resolve_preindex_indirect(m)
      [] mode = "INDIRECT_Y" -> resolve_postindex_indirect(m)
      [] mode = "RELATIVE" -> resolve_relative(m)
      [] OTHER -> [v |-> m.cpu.operand_addr, m |-> m]

\* CPU::execute, after the addressing mode is resolved: r is the resolved
\* address and the machine after resolving it
SetOperand(r) == [r.m EXCEPT !.cpu.operand_addr = r.v]

\* CPU::execute, after the handler returned in machine m3: the page-cross
\* cycle, the instruction's cycles, the running total
CountCycles(m3, instruction) ==
    LET crossed == instruction.check_page_cross /\ m3.cpu.page_crossed
        curr == m3.cpu.curr_cycle + (IF crossed THEN 1 ELSE 0) + instruction.cycles
    IN  [m3 EXCEPT !.cpu.page_crossed = IF crossed THEN FALSE ELSE @,
                   !.cpu.curr_cycle = curr,
                   !.cpu.total_cycles = @ + curr]

execute(m, instruction) ==
    CountCycles(
        Call(SetOperand(Resolve([m EXCEPT !.cpu.addr_mode = instruction.addr_mode],
                                instruction.addr_mode)),
             instruction.func),
        instruction)

\* INSTRUCTIONS[byte]: an index of TableSize or more is out of range, and then
\* the entry is whatever lies behind the table
Decode(m, byte) ==
    IF byte < TableSize
    THEN [v |-> INSTRUCTIONS[byte + 1], m |-> m]
    ELSE [v |-> INSTRUCTIONS[(m.ubv % TableSize) + 1],
          m |-> NoteUB(m, "decode_table_out_of_range")]

\* CPU::step, after the fetch: d is the decoded entry and the machine
Dispatch(d) == execute(d.m, d.v)

\* CPU::step, its result: [v |-> the value returned, m, opcode |-> the byte fetched]
StepResult(m3, byte) == [v |-> m3.cpu.curr_cycle, m |-> m3, opcode |-> byte]

\* CPU::step, after bus.read(pc++) returned f
Fetched(f) ==
    StepResult(Dispatch(Decode([f.m EXCEPT !.cpu.pc = U16(@ + 1)], f.v)), f.v)

\* step that does not restart curr_cycle
step_NoRestart(m) == Fetched(bus_read(m, m.cpu.pc))

step(m) == Fetched(bus_read([m EXCEPT !.cpu.curr_cycle = 0], m.cpu.pc))

\* reset that leaves X and Y as they are
reset_KeepIndex(m) ==
    LET vec == ReadVector(m, RESET_VECTOR_ADDRESS)
    IN  [vec.m EXCEPT !.cpu.a = 0, !.cpu.sp = 253,
                      !.cpu.p = BitOr(INTERRUPT, UNUSED), !.cpu.pc = vec.v,
                      !.cpu.total_cycles = @ + 7]

reset(m) ==
    LET vec == ReadVector(m, RESET_VECTOR_ADDRESS)
    IN  [vec.m EXCEPT !.cpu.a = 0, !.cpu.x = 0, !.cpu.y = 0, !.cpu.sp = 253,
                      !.cpu.p = BitOr(INTERRUPT, UNUSED), !.cpu.pc = vec.v,
                      !.cpu.total_cycles = @ + 7]

----------------------------------------------------------------------------
(* The inputs: ROM files. *)

\* the bytes an undefined read may yield
UBBytes == {0, 165}

\* what uninitialized RAM may hold (CPUMemoryBus::ram has no initializer)
RamGarbage == {0, 255}

\* the 16 header bytes of an iNES file
Header(prg_banks, chr_banks, flags6, flags7) ==
    <<78, 69, 83, 26, prg_banks, chr_banks, flags6, flags7, 0, 0, 0, 0, 0, 0, 0, 0>>

\* a file of the size its header declares; cells gives PRG ROM bytes by their
\* index in the PRG image, every other byte of the body is fill
RomFile(prg_banks, chr_banks, flags6, flags7, cells, fill) ==
    LET h == Header(prg_banks, chr_banks, flags6, flags7)
    IN  [exists |-> TRUE, readable |-> TRUE,
         size |-> HEADER_SIZE + 16384 * prg_banks + 8192 * chr_banks,
         at |-> [i \in (0 .. 15) \cup {HEADER_SIZE + k : k \in DOMAIN cells}
                    |-> IF i < HEADER_SIZE THEN h[i + 1] ELSE cells[i - HEADER_SIZE]],
         fill |-> fill]

\* PRG cells: code from index 0 (CPU address 0x8000), an RTI at index 0x1000
\* (0x9000), the reset vector 0x8000 and the IRQ vector 0x9000
Image(code) ==
    [i \in (0 .. Len(code) - 1) \cup {4096, 16380, 16381, 16382, 16383} |->
        IF i < Len(code) THEN code[i + 1]
        ELSE IF i = 4096 THEN 64
        ELSE IF i = 16380 THEN 0
        ELSE IF i = 16381 THEN 128
        ELSE IF i = 16382 THEN 0
        ELSE 144]

\* Image(code) with more code from PRG index k
ImageAt(code, k, more) ==
    [i \in (DOMAIN Image(code)) \cup (k .. k + Len(more) - 1) |->
        IF i >= k /\ i < k + Len(more) THEN more[i - k + 1] ELSE Image(code)[i]]

\* instruction sequences that bring the CPU into a state of interest
Setups ==
    { <<>>,
      <<56>>,                 \* SEC
      <<169, 128>>,           \* LDA #$80
      <<169, 0>>,             \* LDA #$00
      <<169, 80, 105, 80>>,   \* LDA #$50 ; ADC #$50
      <<162, 255, 160, 1>>,   \* LDX #$FF ; LDY #$01
      <<162, 0, 154>>,        \* LDX #$00 ; TXS
      <<248, 88>> }           \* SED ; CLI

\* the two bytes after the opcode under test: its operand, or the opcodes of
\* the instructions that follow it
Operands ==
    { <<40, 0>>,      \* PLP ; $0028
      <<64, 0>>,      \* RTI ; $0040
      <<96, 0>>,      \* RTS ; $0060
      <<255, 16>>,    \* $10FF ; offset -1
      <<128, 255>>,   \* $FF80 ; offset -128
      <<0, 80>>,      \* $5000
      <<255, 48>> }   \* $30FF

Programs == { s \o <<b0>> \o o : s \in Setups, b0 \in Byte, o \in Operands }

\* a 32 KiB image whose two banks differ
TwoBankCells ==
    [i \in {0, 16384, 16380, 16381, 32764, 32765} |->
        IF i = 0 THEN 169
        ELSE IF i = 16384 THEN 90
        ELSE IF i = 16380 THEN 0
        ELSE IF i = 16381 THEN 128
        ELSE IF i = 32764 THEN 0
        ELSE 192]

GoodFiles ==
    { RomFile(1, 1, 0, 0, Image(<<169, 66, 133, 16>>), 234),
      RomFile(1, 0, 1, 0, Image(<<169, 66, 133, 16>>), 234),
      RomFile(2, 1, 0, 0, TwoBankCells, 234),
      RomFile(1, 1, 4, 15, ImageAt(<<169, 66, 133, 16>>, 16384, <<1, 2, 3>>), 234) }

\* the path that names no file
NoFile == [exists |-> FALSE, readable |-> FALSE, size |-> 0, at |-> <<>>, fill |-> 0]

\* files the loader rejects, and a file that is not there
BadFiles ==
    { NoFile,
      [exists |-> TRUE, readable |-> FALSE, size |-> 16400, at |-> <<>>, fill |-> 0],
      [exists |-> TRUE, readable |-> TRUE, size |-> 8,
       at |-> [i \in 0 .. 3 |-> Header(1, 0, 0, 0)[i + 1]], fill |-> 0],
      [RomFile(1, 1, 0, 0, <<>>, 234) EXCEPT !.at[0] = 77],
      [RomFile(1, 1, 0, 0, <<>>, 234) EXCEPT !.size = @ + 512],
      RomFile(1, 1, 16, 0, <<>>, 234),
      RomFile(1, 1, 0, 16, <<>>, 234),
      RomFile(0, 1, 0, 0, <<>>, 234),
      [exists |-> TRUE, readable |-> TRUE, size |-> 8,
       at |-> [i \in 0 .. 3 |-> 77], fill |-> 0],
      [RomFile(1, 1, 0, 0, <<>>, 234) EXCEPT !.at[0] = 77, !.size = @ + 512],
      [RomFile(1, 1, 16, 0, <<>>, 234) EXCEPT !.size = @ + 512],
      [RomFile(1, 1, 0, 16, <<>>, 234) EXCEPT !.at[3] = 0] }

\* further programs: subroutine calls (JSR to an RTS, the same with SP
\* wrapping during the pushes, a call nested in a call), BRK, indexed accesses
Scenarios ==
    { <<32, 3, 128, 96>>,                    \* JSR $8003 ; RTS
      <<162, 0, 154, 32, 6, 128, 96>>,       \* LDX #$00 ; TXS ; JSR $8006 ; RTS
      <<32, 3, 128, 32, 6, 128, 96>>,        \* JSR $8003 ; JSR $8006 ; RTS
      <<0, 0, 8, 40>>,                       \* BRK (to the RTI at $9000) ; PHP ; PLP
      <<160, 1, 153, 255, 16, 185, 0, 16>>,  \* LDY #$01 ; STA $10FF,Y ; LDA $1000,Y
      <<56, 76, 255, 255>> }                 \* SEC ; JMP $FFFF (there: BCC, operand at $0000)

\* what main may be given; the last programs are JMP $80FD ; at $80FD: BPL +1
\* (taken, to $8100, across a page) ; at $8100: LDA $1000,X, and JMP $FFF8 ;
\* at $FFF8: BPL +127 (taken, past $FFFF)
Files ==
    { RomFile(1, 0, 0, 0, Image(c), 234) : c \in Programs \cup Scenarios }
        \cup { RomFile(1, 0, 0, 0,
                        ImageAt(<<76, 253, 128>>, 253, <<16, 1, 234, 189, 0, 16>>), 234),
                RomFile(1, 0, 0, 0, ImageAt(<<76, 248, 255>>, 16376, <<16, 127>>), 234) }
        \cup GoodFiles \cup BadFiles

\* what the direct users of the bus are given
BusFiles ==
    { RomFile(1, 1, 0, 0, Image(<<169, 66, 133, 16>>), 234),
      RomFile(2, 1, 0, 0, TwoBankCells, 234),
      [RomFile(1, 1, 0, 0, <<>>, 234) EXCEPT !.at[0] = 77] }

----------------------------------------------------------------------------
(* The state after construction, and the operations. *)

\* the machine a call starts from: u is the byte an undefined read yields in
\* it, o the build's order of evaluation of the two pops of rti / rts
Machine(u, o) ==
    [cpu |-> cpu, ram |-> ram, ub |-> ub, wlog |-> wlog,
     hit |-> FALSE, kind |-> "none", ubv |-> u, order |-> o, site |-> "none"]

Orders == {"left_first", "right_first"}

\* the addresses the host reads and writes on the bus, and the bytes it writes
ProbeAddrs == {2048, 8192, 16416, 20480, 32768, 49152}
WriteAddrs == {0, 2048, 4096, 6144, 8191, 32768}
WriteData == {17, 34}

Init ==
    /\ cart = [outcome |-> "none", mapper |-> EmptyMapper, file |-> NoFile]
    /\ cartridge = "null"
    /\ ram \in {[size |-> 2048, at |-> <<>>, fill |-> g] : g \in RamGarbage}
    /\ cpu = NewCPU
    /\ host_pc = "load"
    /\ cycles = 0
    /\ error = "none"
    /\ ub = {}
    /\ ret = 0
    /\ opcode = -1
    /\ last_read = [address |-> -1, v |-> 0, ub |-> "none"]
    /\ wlog = <<>>
    /\ build = [rti |-> "unset", rts |-> "unset"]
    /\ hist = [call |-> "none", hit |-> FALSE, before |-> NewCPU, ram |-> ram,
               writes |-> 0, before2 |-> NewCPU, opcode2 |-> -1, sum |-> 0,
               jsr |-> [a |-> -1, sp |-> 0, sp_after |-> 0, hi |-> 0, lo |-> 0]]

\* the state after a call that ended in machine m: when the call executed
\* undefined behaviour the process may have died in it
Commit(m, crash, next_pc) ==
    IF m.hit /\ crash
    THEN /\ ub' = m.ub
         /\ host_pc' = "abort"
         /\ UNCHANGED <<cpu, ram, wlog, build>>
    ELSE /\ cpu' = m.cpu
         /\ ram' = m.ram
         /\ ub' = m.ub
         /\ wlog' = m.wlog
         /\ host_pc' = next_pc
         /\ build' = IF m.site = "none" THEN build ELSE [build EXCEPT ![m.site] = m.order]

\* main: read the path and the cycle count, make_shared<Cartridge>(rom_path)
Load(F, N) ==
    /\ host_pc = "load"
    /\ \E f \in F, n \in N :
          LET c == Cartridge(f)
          IN  /\ cart' = [outcome |-> c.outcome, mapper |-> c.mapper, file |-> f]
              /\ error' = c.error
              /\ cycles' = n
              /\ host_pc' = IF c.outcome = "returned" THEN "connect" ELSE "abort"
    /\ UNCHANGED <<cartridge, ram, cpu, ub, ret, opcode, last_read, wlog, build, hist>>

Main_Load == Load(Files, {MaxCycles})

\* main: bus.connect_cartridge(cartridge); CPU cpu(bus)
Main_Connect ==
    /\ host_pc = "connect"
    /\ cartridge' = "cart"
    /\ host_pc' = "reset"
    /\ UNCHANGED <<cart, ram, cpu, cycles, error, ub, ret, opcode, last_read, wlog,
                   build, hist>>

\* The record of the calls made on the CPU, kept for the properties: the last
\* call (call) and whether it executed undefined behaviour (hit), the CPU, the
\* RAM and the number of bus writes before it (before, ram, writes), the CPU
\* before the call before it (before2), the byte the step before the last
\* fetched (opcode2), the sum of the values step() returned (sum), and for the
\* last JSR executed its address, SP before and after it, and the two bytes it
\* left on the stack (jsr).
Track(s, crash) ==
    [call |-> "step",
     hit |-> s.m.hit,
     before |-> cpu,
     ram |-> ram,
     writes |-> Len(wlog),
     before2 |-> hist.before,
     opcode2 |-> opcode,
     sum |-> IF s.m.hit /\ crash THEN hist.sum ELSE hist.sum + s.v,
     jsr |-> IF s.opcode = 32 /\ ~s.m.hit
             THEN [a |-> U16(cpu.pc), sp |-> cpu.sp, sp_after |-> s.m.cpu.sp,
                   hi |-> bus_read(s.m, BitOr(STACK_BASE_ADDRESS, cpu.sp)).v,
                   lo |-> bus_read(s.m, BitOr(STACK_BASE_ADDRESS, U8(cpu.sp + 255))).v]
             ELSE hist.jsr]

\* cpu.reset() returned in machine m, or the process died in it (crash)
Reset(m, crash) ==
    /\ Commit(m, crash, "step")
    /\ hist' = [hist EXCEPT !.call = "reset", !.hit = m.hit, !.before = cpu,
                             !.ram = ram, !.writes = Len(wlog),
                             !.before2 = hist.before, !.opcode2 = opcode]

\* main: cpu.reset()
Main_Reset ==
    /\ host_pc = "reset"
    /\ \E u \in UBBytes, crash \in BOOLEAN : Reset(reset(Machine(u, "left_first")), crash)
    /\ UNCHANGED <<cart, cartridge, cycles, error, ret, opcode, last_read>>

\* cpu.step() returned s, or the process died in it (crash); the build's
\* order of evaluation, once used at a site, stays what it was
Returned(s, crash) ==
    /\ s.m.site # "none" => build[s.m.site] \in {"unset", s.m.order}
    /\ Commit(s.m, crash, "step")
    /\ ret' = IF s.m.hit /\ crash THEN ret ELSE s.v
    /\ opcode' = s.opcode
    /\ hist' = Track(s, crash)

\* s0 is the step as it runs when nothing in it is undefined or unspecified;
\* when something is, the step has one outcome for each choice of the build
Stepped(s0) ==
    IF ~s0.m.hit /\ s0.m.site = "none"
    THEN Returned(s0, FALSE)
    ELSE \E u \in UBBytes, crash \in BOOLEAN, o \in Orders :
            Returned(step(Machine(u, o)), crash)

\* main: one turn of  while (cycles--) cpu.step()
Main_Step ==
    /\ host_pc = "step"
    /\ cycles > 0
    /\ cycles' = cycles - 1
    /\ Stepped(step(Machine(0, "left_first")))
    /\ UNCHANGED <<cart, cartridge, error, last_read>>

\* main: the loop ends, return 0
Main_Exit ==
    /\ host_pc = "step"
    /\ cycles = 0
    /\ cycles' = -1
    /\ host_pc' = "exit"
    /\ UNCHANGED <<cart, cartridge, ram, cpu, error, ub, ret, opcode, last_read, wlog,
                   build, hist>>

Next == Main_Load \/ Main_Connect \/ Main_Reset \/ Main_Step \/ Main_Exit

Spec == Init /\ [][Next]_vars

----------------------------------------------------------------------------
(* The bus used directly: a host that makes a cartridge, connects it, and   *)
(* reads and writes the bus.                                               *)

Bus_Load == Load(BusFiles, {0})

Host_BusRead ==
    /\ host_pc \in {"load", "connect", "reset"}
    /\ \E address \in ProbeAddrs, u \in UBBytes, crash \in BOOLEAN :
          LET r == bus_read(Machine(u, "left_first"), address)
          IN  /\ Commit(r.m, crash, host_pc)
              /\ last_read' = IF r.m.hit /\ crash THEN last_read
                              ELSE [address |-> address, v |-> r.v, ub |-> r.m.kind]
    /\ UNCHANGED <<cart, cartridge, cycles, error, ret, opcode, hist>>

Host_BusWrite ==
    /\ host_pc \in {"load", "connect", "reset"}
    /\ Len(wlog) < MaxWrites
    /\ \E address \in WriteAddrs \cup {8192, 16404, 16408}, crash \in BOOLEAN :
          \* outside RAM: the PPU window, DMA, the disabled registers; cell 0
          \* is written both bytes, the other addresses one of them each
          \E data \in IF address = 0 THEN WriteData
                      ELSE IF address \in {2048, 6144, 32768} THEN {17} ELSE {34} :
              Commit(bus_write(Machine(0, "left_first"), address, data), crash, host_pc)
    /\ UNCHANGED <<cart, cartridge, cycles, error, ret, opcode, last_read, hist>>

NextBus == Bus_Load \/ Main_Connect \/ Host_BusRead \/ Host_BusWrite

SpecBus == Init /\ [][NextBus]_vars

----------------------------------------------------------------------------
(* The CPU used directly: a host that makes a cartridge and a bus, sets     *)
(* bytes through the bus, and calls reset() and step() as it likes.        *)

\* the programs run: an optional index load, then an instruction with an
\* indirect operand
CpuFiles ==
    { RomFile(1, 0, 0, 0, Image(s \o <<b0>> \o o), 234) :
        s \in {<<>>, <<162, 1>>, <<160, 1>>},
        b0 \in {108, 161, 177, 129, 145},
        o \in {<<255, 16>>, <<255, 48>>, <<254, 16>>, <<255, 0>>} }

\* the bytes the host sets before reset(): in the PPU window, and in RAM
PpuWrites == << <<12543, 64>>, <<12288, 128>>, <<12544, 255>> >>
RamWrites == << <<4351, 64>>, <<4096, 128>>, <<4352, 255>> >>

\* three calls of bus.write (none of them reaches the cartridge)
Host_Setup ==
    /\ host_pc = "reset"
    /\ wlog = <<>>
    /\ \E w \in {PpuWrites, RamWrites} :
          Commit(bus_write(bus_write(bus_write(Machine(0, "left_first"),
                                               w[1][1], w[1][2]),
                                     w[2][1], w[2][2]),
                           w[3][1], w[3][2]),
                 FALSE, "reset")
    /\ UNCHANGED <<cart, cartridge, cycles, error, ret, opcode, last_read, hist>>

\* cpu.reset() called again, between two steps
Host_Reset ==
    /\ host_pc = "step"
    /\ cycles > 0
    /\ cycles' = cycles - 1
    /\ \E u \in UBBytes, crash \in BOOLEAN : Reset(reset(Machine(u, "left_first")), crash)
    /\ UNCHANGED <<cart, cartridge, error, ret, opcode, last_read>>

NextCpu ==
    Load(CpuFiles, {MaxCycles}) \/ Main_Connect \/ Host_Setup \/ Main_Reset \/ Host_Reset \/ Main_Step
        \/ Main_Exit

SpecCpu == Init /\ [][NextCpu]_vars

----------------------------------------------------------------------------
(* Properties. *)

\* reset() has run and the process lives
AfterReset == host_pc \in {"step", "exit"}

\* no step() has decoded an illegal opcode
Legal == ub \cap {"null_handler", "decode_table_out_of_range"} = {}

FlagSet(flag) == BitAnd(cpu.p, flag) # 0

\* the bus as it is now, for reads made by the properties
Now == Machine(0, "left_first")

\* C1: after reset(), in every state reached by legal instructions, bit 4 (B)
\* of the live status register P is 0 (stated for a ROM that loaded without
\* error, RAM that started zeroed and a run without undefined behaviour).
C1_BreakNeverInLiveP ==
    (AfterReset /\ error = "none" /\ ram.fill = 0 /\ ub = {}) => ~FlagSet(BREAK)

\* C2: after reset(), bit 5 (U) of P is 1 after every step() of a legal
\* instruction, whatever the instructions and the memory hold.
C2_UnusedAlwaysSet == (AfterReset /\ Legal) => FlagSet(UNUSED)

\* C2, its case: PLP has just popped a byte whose bit 5 is 0 (the byte still
\* lies at 0x0100 | SP) and U is set in P.
C2_Witness ==
    /\ host_pc = "step"
    /\ opcode = 40
    /\ ub = {}
    /\ BitAnd(bus_read(Now, BitOr(STACK_BASE_ADDRESS, cpu.sp)).v, UNUSED) = 0
    /\ FlagSet(UNUSED)

BranchOpcodes == {16, 48, 80, 112, 144, 176, 208, 240}

\* the flag a branch opcode tests, and whether it branches on the flag set
BranchFlag(op) ==
    CASE op \in {16, 48} -> NEGATIVE
      [] op \in {80, 112} -> OVERFLOW_
      [] op \in {144, 176} -> CARRY
      [] op \in {208, 240} -> ZERO

BranchTaken(op) == FlagSet(BranchFlag(op)) <=> op \in {48, 112, 176, 240}

\* the address that follows the operand byte of the instruction just executed
AfterOperand == U16(cpu.operand_addr + 1)

\* C3: a branch returns 2 cycles when not taken, 3 when taken within the page
\* of the address that follows its operand, 4 when taken into another page.
C3_BranchCycles ==
    (AfterReset /\ error = "none" /\ ub = {} /\ opcode \in BranchOpcodes) =>
        ret = IF ~BranchTaken(opcode) THEN 2
              ELSE IF AfterOperand \div 256 = cpu.pc \div 256 THEN 3
              ELSE 4

\* the last host read went to the cartridge, loaded without error and connected
ReadFromCartridge ==
    /\ last_read.address >= 16416
    /\ last_read.ub # "null_cartridge"
    /\ cartridge = "cart"
    /\ error = "none"

\* C4: with a 32 KiB PRG ROM a read at addr in 0x8000-0xFFFF returns
\* prg_rom[addr - 0x8000]; with a 16 KiB PRG ROM both halves return the one bank.
C4_NromIndexesFullImage ==
    (ReadFromCartridge /\ last_read.address >= 32768
        /\ cart.mapper.prg_rom.size \in {16384, 32768}) =>
        last_read.v = VecAt(cart.mapper.prg_rom,
                            (last_read.address - 32768) % cart.mapper.prg_rom.size)

ProbeCells == {0, 1, 2047}

\* the writes so far that went to one of the four addresses of RAM cell a
WritesTo(a) ==
    {i \in 1 .. Len(wlog) : wlog[i][1] \in {a, a + 2048, a + 4096, a + 6144}}

\* C5: for every a in 0x0000-0x07FF, after any sequence of bus writes, the reads
\* at a, a | 0x0800, a | 0x1000 and a | 0x1800 are equal, and equal to the last
\* value written to any of the four addresses.
C5_RamMirrors ==
    \A a \in ProbeCells :
        LET r0 == bus_read(Now, a).v
        IN  /\ bus_read(Now, a + 2048).v = r0
            /\ bus_read(Now, a + 4096).v = r0
            /\ bus_read(Now, a + 6144).v = r0
            /\ WritesTo(a) # {} =>
                  r0 = wlog[CHOOSE i \in WritesTo(a) : \A j \in WritesTo(a) : j <= i][2]

\* C5, its case: a cell written through one mirror, then through another, and
\* read back through a third.
C5_Witness ==
    /\ Len(wlog) = 2
    /\ wlog[1] = <<0, 17>>
    /\ wlog[2] = <<4096, 34>>
    /\ bus_read(Now, 6144).v = 34
    /\ bus_read(Now, 2048).v = 34

\* C6: when the loader detects a load error, construction yields no Cartridge
\* object, so main never attaches one to the bus nor runs reset() or step().
C6_LoadErrorsReported ==
    error \in {"MalformedROM", "InvalidMagic", "UnsupportedMapper"} =>
        /\ cart.outcome # "returned"
        /\ cartridge = "null"
        /\ host_pc \notin {"reset", "step", "exit"}

\* C7: once step() has decoded a null table entry (in a run with nothing else
\* undefined) the session is halted with IllegalOpcode: no later instruction runs.
C7_IllegalOpcodeHalts ==
    ub = {"null_handler"} => (host_pc = "abort" /\ error = "IllegalOpcode")

\* C8: every byte step() fetches indexes inside the decode table (stated for
\* a ROM that loaded without error and a run with nothing else undefined).
C8_DecodeTableCoversEveryByte ==
    (opcode \in Byte /\ error = "none" /\ ub \subseteq {"decode_table_out_of_range"}) =>
        opcode + 1 \in DOMAIN INSTRUCTIONS

\* C9: bus.read and bus.write are total: no call on the bus, with or without a
\* cartridge connected, executes undefined behaviour.
C9_BusTotal == ub = {}

\* C10: a read at 0x4020-0x7FFF, which the bus forwards to the mapper, returns 0.
C10_OutsideWindowsReadZero ==
    (ReadFromCartridge /\ last_read.address <= 32767) => last_read.v = 0

\* C11: on a freshly constructed bus, before any write, bus.read(addr) returns
\* 0 for every addr in 0x0000-0x1FFF.
C11_RamInitializedToZero ==
    (wlog = <<>> /\ last_read.address \in 0 .. 8191) => last_read.v = 0

\* the machine as it was before the last call on the CPU
Before == [Now EXCEPT !.cpu = hist.before, !.ram = hist.ram]

\* the k-th byte after the opcode of the instruction the last step executed
OperandByte(k) == bus_read(Before, U16(hist.before.pc + k)).v

\* the 16-bit operand of the instruction the last step executed
OperandWord == OperandByte(1) + 256 * OperandByte(2)

\* the last call on the CPU was a step that returned without undefined behaviour
StepDone == hist.call = "step" /\ ~hist.hit /\ host_pc # "abort"

\* C12 as stated: with 0x30FF = 0x40, 0x3000 = 0x80, 0x3100 = 0xFF set through
\* the bus, JMP ($30FF) executed from ROM leaves PC = 0x8040.
C12_JmpIndirect30FF ==
    (StepDone /\ opcode = 108 /\ OperandWord = 12543 /\ wlog = PpuWrites) =>
        cpu.pc = 32832

\* C12 amended: with the three bytes set through the bus in RAM (0x10FF = 0x40,
\* 0x1000 = 0x80, 0x1100 = 0xFF) JMP ($10FF) leaves PC = 0x8040, not 0xFF40;
\* set at 0x30FF, 0x3000, 0x3100 they are dropped by the PPU window, which
\* reads 0, and JMP ($30FF) leaves PC = 0x0000.
C12_JmpIndirectAmended ==
    /\ (StepDone /\ opcode = 108 /\ OperandWord = 4351 /\ wlog = RamWrites) =>
            cpu.pc = 32832
    /\ (StepDone /\ opcode = 108 /\ OperandWord = 12543 /\ wlog = PpuWrites) =>
            cpu.pc = 0

\* C12, its case: JMP ($10FF) has run after the three RAM bytes were set
C12_Witness ==
    /\ StepDone
    /\ opcode = 108
    /\ OperandWord = 4351
    /\ wlog = RamWrites
    /\ bus_read(Before, 4351).v = 64
    /\ bus_read(Before, 4096).v = 128
    /\ bus_read(Before, 4352).v = 255
    /\ cpu.pc = 32832

\* the decode-table entry of the instruction the last step executed
Entry == INSTRUCTIONS[opcode + 1]

\* the last step executed an instruction of the table, in full
Executed == StepDone /\ opcode \in 0 .. TableSize - 1 /\ Entry.func # "nullptr"

\* the address of the pointer the last instruction fetched (indirect modes)
PointerAddress ==
    CASE Entry.addr_mode = "INDIRECT" -> OperandWord
      [] Entry.addr_mode = "X_INDIRECT" -> (OperandByte(1) + hist.before.x) % 256
      [] Entry.addr_mode = "INDIRECT_Y" -> OperandByte(1)

\* the word whose low byte is at p and whose high byte is at the next address
\* of the same page
WrappedWord(p) ==
    bus_read(Before, p).v
        + 256 * bus_read(Before, (p \div 256) * 256 + ((p + 1) % 256)).v

\* C13: every pointer fetch of the INDIRECT, X_INDIRECT and INDIRECT_Y modes
\* reads the low byte at p and the high byte at (p & 0xFF00) | ((p + 1) & 0xFF).
C13_PointerFetchWraps ==
    (Executed /\ Entry.addr_mode \in {"INDIRECT", "X_INDIRECT", "INDIRECT_Y"}) =>
        cpu.operand_addr =
            IF Entry.addr_mode = "INDIRECT_Y"
            THEN (WrappedWord(PointerAddress) + hist.before.y) % 65536
            ELSE WrappedWord(PointerAddress)

\* C13, its case: a zero-page pointer at 0x00FF, whose high byte lies at
\* 0x0000 and not at 0x0100, the two holding different bytes
C13_Witness ==
    /\ Executed
    /\ Entry.addr_mode \in {"X_INDIRECT", "INDIRECT_Y"}
    /\ PointerAddress = 255
    /\ bus_read(Before, 0).v = 128
    /\ bus_read(Before, 256).v = 255
    /\ bus_read(Before, 255).v = 64
    /\ cpu.operand_addr \in {32832, 32833}

\* C14: an RTS executed with SP as the last JSR (at address a) left it and the
\* two bytes that JSR pushed unmodified leaves PC = a + 3 and SP as it was
\* before the JSR.
C14_JsrRtsRoundTrip ==
    (/\ Executed
     /\ Entry.func = "rts"
     /\ error = "none"
     /\ hist.jsr.a >= 0
     /\ hist.before.sp = hist.jsr.sp_after
     /\ bus_read(Before, BitOr(STACK_BASE_ADDRESS, hist.jsr.sp)).v = hist.jsr.hi
     /\ bus_read(Before, BitOr(STACK_BASE_ADDRESS, U8(hist.jsr.sp + 255))).v = hist.jsr.lo)
    => /\ cpu.pc = U16(hist.jsr.a + 3)
       /\ cpu.sp = hist.jsr.sp

\* C15: PHP immediately followed by PLP leaves C, Z, I, D, V and N as they
\* were before the PHP, B = 0 and U = 1 in P, and SP as before the PHP.
C15_PhpPlpRoundTrip ==
    (Executed /\ opcode = 40 /\ hist.opcode2 = 8 /\ ub = {}) =>
        /\ cpu.p = BitOr(BitAnd(hist.before2.p, 255 - BREAK - UNUSED), UNUSED)
        /\ cpu.sp = hist.before2.sp

\* C15, its case: the round trip made from a P that has B set (left there by
\* an RTI) along with other flags
C15_Witness ==
    /\ Executed
    /\ opcode = 40
    /\ hist.opcode2 = 8
    /\ ub = {}
    /\ BitAnd(hist.before2.p, BREAK) # 0
    /\ BitAnd(hist.before2.p, INTERRUPT) # 0
    /\ ~FlagSet(BREAK)
    /\ FlagSet(INTERRUPT)
    /\ cpu.sp = hist.before2.sp

\* the last instruction's own indexed effective address (base + index, mode
\* ABSOLUTE,X / ABSOLUTE,Y / INDIRECT_Y) lies in another page than its base
OwnPageCross ==
    LET base == IF Entry.addr_mode = "INDIRECT_Y"
                THEN WrappedWord(OperandByte(1)) ELSE OperandWord
        index == IF Entry.addr_mode = "ABSOLUTE_X" THEN hist.before.x ELSE hist.before.y
    IN  /\ Entry.addr_mode \in {"ABSOLUTE_X", "ABSOLUTE_Y", "INDIRECT_Y"}
        /\ base \div 256 # ((base + index) % 65536) \div 256

\* C16: for a non-branch legal instruction step() returns the table's cycle
\* count, plus 1 exactly when the entry is flagged for page cross and the
\* instruction's own indexed address crosses a page, whatever ran before it.
C16_PageCrossCycles ==
    (Executed /\ opcode \notin BranchOpcodes) =>
        ret = Entry.cycles + (IF Entry.check_page_cross /\ OwnPageCross THEN 1 ELSE 0)

\* C16, its case: a flagged instruction that crosses no page runs while
\* page_crossed is still set from the instruction before it
C16_Witness ==
    /\ Executed
    /\ hist.before.page_crossed
    /\ Entry.check_page_cross
    /\ ~OwnPageCross
    /\ ret = Entry.cycles

\* C17: reset(), called in any CPU state, leaves A = X = Y = 0, SP = 0xFD,
\* P = 0x24, PC = the little-endian word at 0xFFFC, the cycle total 7 greater
\* than before, and memory unwritten.
C17_Reset ==
    (hist.call = "reset" /\ ~hist.hit /\ host_pc # "abort") =>
        /\ cpu.a = 0 /\ cpu.x = 0 /\ cpu.y = 0
        /\ cpu.sp = 253
        /\ cpu.p = 36
        /\ cpu.pc = bus_read(Now, RESET_VECTOR_ADDRESS).v
                        + 256 * bus_read(Now, RESET_VECTOR_ADDRESS + 1).v
        /\ cpu.total_cycles = hist.before.total_cycles + 7
        /\ ram = hist.ram
        /\ Len(wlog) = hist.writes

\* C17, its case: reset() called again after instructions have changed X and PC
C17_Witness ==
    /\ hist.call = "reset"
    /\ ~hist.hit
    /\ host_pc = "step"
    /\ hist.before.x = 1
    /\ hist.before.pc = 32770
    /\ hist.before.total_cycles = 9
    /\ cpu.x = 0
    /\ cpu.pc = 32768
    /\ cpu.total_cycles = 16

\* C18: after reset() on a new CPU and any number of legal steps the cycle
\* total is 7 plus the sum of the values step() returned, and each value
\* counts one instruction only (its table cycles plus at most the two extra
\* cycles); LDA #$42 then STA $10 gives A = 0x42, Z = 0, N = 0,
\* ram[0x10] = 0x42 and total 12.
C18_CycleTotal ==
    (AfterReset /\ Legal) =>
        /\ cpu.total_cycles = 7 + hist.sum
        /\ Executed => (ret = cpu.curr_cycle /\ ret \in Entry.cycles .. Entry.cycles + 2)
        /\ (/\ Executed /\ opcode = 133 /\ OperandByte(1) = 16
            /\ hist.opcode2 = 169 /\ hist.before.pc = 32770 /\ hist.before.a = 66
            /\ error = "none")
           => /\ cpu.a = 66
              /\ ~FlagSet(ZERO) /\ ~FlagSet(NEGATIVE)
              /\ bus_read(Now, 16).v = 66
              /\ cpu.total_cycles = 12

\* C18, its case: LDA #$42 ; STA $10 has run, then a third instruction
C18_Witness ==
    /\ Executed
    /\ hist.sum = 2 + 3 + ret
    /\ hist.before.total_cycles = 12
    /\ hist.before.a = 66
    /\ bus_read(Before, 16).v = 66
    /\ cpu.total_cycles = 12 + ret
    /\ ret = 2

\* the byte on the stack k pushes after the one made at the SP the last call
\* started with
Pushed(k) == bus_read(Now, BitOr(STACK_BASE_ADDRESS, U8(hist.before.sp + 256 - k))).v

\* C19: BRK at address a pushes the high byte of a+2, the low byte of a+2 and
\* P with B and U set, in this order; the live P gains I and not B; PC is the
\* word at 0xFFFE, SP is 3 lower and 7 cycles are returned. With P = 0x24,
\* a = 0x8000 and the vector 0x9000 the bytes are 0x80, 0x02, 0x34.
C19_Brk ==
    (Executed /\ opcode = 0 /\ error = "none") =>
        /\ Pushed(0) = U16(hist.before.pc + 2) \div 256
        /\ Pushed(1) = U16(hist.before.pc + 2) % 256
        /\ Pushed(2) = BitOr(hist.before.p, BitOr(BREAK, UNUSED))
        /\ cpu.p = BitOr(hist.before.p, INTERRUPT)
        /\ cpu.pc = ReadVector(Now, IRQ_VECTOR_ADDRESS).v
        /\ cpu.sp = U8(hist.before.sp + 253)
        /\ ret = 7
        /\ (hist.before.p = 36 /\ hist.before.pc = 32768 /\ cpu.pc = 36864)
           => (Pushed(0) = 128 /\ Pushed(1) = 2 /\ Pushed(2) = 52 /\ FlagSet(INTERRUPT))

\* C19, its case: BRK at 0x8000 with P = 0x24 and the vector 0x9000
C19_Witness ==
    /\ Executed /\ opcode = 0 /\ error = "none"
    /\ hist.before.p = 36 /\ hist.before.pc = 32768 /\ cpu.pc = 36864

\* the constructor has run on cart.file and nothing has run since
Loaded == cart.outcome # "none" /\ hist.call = "none" /\ cart.file.exists /\ cart.file.readable

\* the vector v holds the n bytes of cart.file from offset from
HoldsFileBytes(v, from, n) ==
    /\ v.size = n
    /\ \A i \in {0, n - 1} \cup DOMAIN v.at \cup {j - from : j \in DOMAIN cart.file.at} :
          (i >= 0 /\ i < n) => VecAt(v, i) = VecAt(cart.file, i + from)
    /\ v.fill = cart.file.fill

\* C20: on a file that can be opened the loader's outcome is that of the first
\* failing check, in this order: MalformedROM if the file has fewer than 16
\* bytes; InvalidMagic unless bytes 0..3 are 'N','E','S',0x1A; MalformedROM if
\* 16 + 16384*header[4] + 8192*header[5] is not the file size;
\* UnsupportedMapper if (flags6 >> 4) | (flags7 & 0xF0) is not 0; otherwise
\* success, the mapper holding the PRG bytes then the CHR bytes of the file.
C20_LoaderCheckOrder ==
    Loaded =>
        IF cart.file.size < 16
        THEN error = "MalformedROM"
        ELSE IF <<VecAt(cart.file, 0), VecAt(cart.file, 1), VecAt(cart.file, 2),
                  VecAt(cart.file, 3)>> # <<78, 69, 83, 26>>
        THEN error = "InvalidMagic"
        ELSE IF 16 + 16384 * VecAt(cart.file, 4) + 8192 * VecAt(cart.file, 5)
                    # cart.file.size
        THEN error = "MalformedROM"
        ELSE IF BitOr(VecAt(cart.file, 6) \div 16, BitAnd(VecAt(cart.file, 7), 240)) # 0
        THEN error = "UnsupportedMapper"
        ELSE /\ error = "none"
             /\ HoldsFileBytes(cart.mapper.prg_rom, 16, 16384 * VecAt(cart.file, 4))
             /\ HoldsFileBytes(cart.mapper.chr_rom, 16 + 16384 * VecAt(cart.file, 4),
                               8192 * VecAt(cart.file, 5))

\* C20, its case: a file whose declared sizes are wrong and whose mapper
\* number is not 0 was rejected for its sizes
C20_Witness ==
    /\ Loaded
    /\ TitleOk(cart.file)
    /\ 16 + 16384 * VecAt(cart.file, 4) + 8192 * VecAt(cart.file, 5) # cart.file.size
    /\ VecAt(cart.file, 6) \div 16 # 0
    /\ error = "MalformedROM"

\* C21: after any sequence of bus writes (none of them undefined) the stub
\* windows 0x2000-0x401F read 0, PRG ROM reads give the bytes of the file, and
\* every RAM cell holds the last value written to one of its four addresses
\* in 0x0000-0x1FFF, or what it held at first: writes at 0x2000-0xFFFF change
\* nothing, a write at 0x0000-0x1FFF changes cell addr & 0x07FF only.
C21_WritesOutsideRamDropped ==
    ub = {} =>
        /\ \A a \in {8192, 8193, 16383, 16384, 16404, 16407, 16408, 16415} :
              bus_read(Now, a).v = 0
        /\ (cartridge # "null" /\ error = "none" /\ cart.mapper.prg_rom.size > 0) =>
              \A a \in {32768, 32769, 49151, 49152, 65532, 65533} :
                  bus_read(Now, a).v = VecAt(cart.file, HEADER_SIZE + (a % 16384))
        /\ \A c \in ProbeCells \cup DOMAIN ram.at \cup {16, 17, 34} :
              bus_read(Now, c).v =
                  IF WritesTo(c) = {} THEN ram.fill
                  ELSE wlog[CHOOSE i \in WritesTo(c) : \A j \in WritesTo(c) : j <= i][2]

\* C21, its case: a RAM write, then writes in the PPU window and in cartridge
\* space, with a cartridge connected
C21_Witness ==
    /\ ub = {}
    /\ cartridge # "null" /\ error = "none"
    /\ Len(wlog) = 2
    /\ wlog[1] = <<8192, 34>>
    /\ wlog[2] = <<32768, 17>>
    /\ bus_read(Now, 32768).v = 169
    /\ bus_read(Now, 0).v = ram.fill

----------------------------------------------------------------------------
(* One instruction on its own: a CPU about to execute an instruction held   *)
(* in RAM, with any operand byte and any value in the registers that        *)
(* instruction reads; main's loop then calls step() once.                   *)

InitUnit ==
    /\ \E op \in {105, 233, 181, 182, 16, 48, 80, 112, 144, 176, 208, 240},
          operand \in Byte, r \in Byte :
          /\ opcode = op
          /\ \E pc0 \in IF op \in {105, 233, 181, 182} THEN {0} ELSE {0, 253} :
                /\ ram = [size |-> 2048,
                          at |-> [i \in {pc0, pc0 + 1} |-> IF i = pc0 THEN op ELSE operand],
                          fill |-> 0]
                /\ \E c \in IF op \in {181, 182} THEN {0} ELSE {0, CARRY} :
                   \E d \in IF op \in {105, 233}
                            THEN {0, DECIMAL + OVERFLOW_ + NEGATIVE + ZERO}
                            ELSE {IF c = 0 THEN 0 ELSE OVERFLOW_ + NEGATIVE + ZERO} :
                      cpu = [NewCPU EXCEPT
                                !.a = IF op \in {105, 233} THEN r ELSE 0,
                                !.x = IF op \in {181, 182} THEN r ELSE 0,
                                !.y = IF op \in {181, 182} THEN U8(r + 85) ELSE 0,
                                !.p = INTERRUPT + UNUSED + c + d,
                                !.sp = 253,
                                !.pc = pc0]
          /\ op \in {16, 48, 80, 112, 144, 176, 208, 240} => r = 0
    /\ cart = [outcome |-> "none", mapper |-> EmptyMapper, file |-> NoFile]
    /\ cartridge = "null"
    /\ host_pc = "step"
    /\ cycles = 1
    /\ error = "none"
    /\ ub = {}
    /\ ret = 0
    /\ last_read = [address |-> -1, v |-> 0, ub |-> "none"]
    /\ wlog = <<>>
    /\ build = [rti |-> "unset", rts |-> "unset"]
    /\ hist = [call |-> "none", hit |-> FALSE, before |-> cpu, ram |-> ram,
               writes |-> 0, before2 |-> NewCPU, opcode2 |-> -1, sum |-> 0,
               jsr |-> [a |-> -1, sp |-> 0, sp_after |-> 0, hi |-> 0, lo |-> 0]]

SpecUnit == InitUnit /\ [][Main_Step]_vars

\* C22: ADC with accumulator A, operand m and carry-in c gives r = A + m + c,
\* C = (r > 0xFF), V = (((A ^ r) & (m ^ r) & 0x80) != 0), A = r mod 256, Z and
\* N from the new A, whatever D is (I, D, B, U stay as they were);
\* 0x50 + 0x50 + 0 gives A = 0xA0, C = 0, V = 1, N = 1, Z = 0.
C22_Adc ==
    (Executed /\ opcode = 105) =>
        LET r == hist.before.a + OperandByte(1) + BitAnd(hist.before.p, CARRY)
        IN  /\ cpu.a = r % 256
            /\ FlagSet(CARRY) <=> r > 255
            /\ FlagSet(OVERFLOW_) <=>
                  BitAnd(BitAnd(BitXor(hist.before.a, r), BitXor(OperandByte(1), r)),
                         128) # 0
            /\ FlagSet(ZERO) <=> cpu.a = 0
            /\ FlagSet(NEGATIVE) <=> cpu.a >= 128
            /\ BitAnd(cpu.p, 60) = BitAnd(hist.before.p, 60)
            /\ (hist.before.a = 80 /\ OperandByte(1) = 80
                /\ BitAnd(hist.before.p, CARRY) = 0)
               => (cpu.a = 160 /\ ~FlagSet(CARRY) /\ FlagSet(OVERFLOW_)
                   /\ FlagSet(NEGATIVE) /\ ~FlagSet(ZERO))

\* C22, its case: 0x50 + 0x50 with carry clear and D set
C22_Witness ==
    /\ Executed /\ opcode = 105
    /\ hist.before.a = 80 /\ OperandByte(1) = 80
    /\ BitAnd(hist.before.p, CARRY + DECIMAL) = DECIMAL
    /\ cpu.a = 160 /\ FlagSet(OVERFLOW_) /\ FlagSet(DECIMAL)

\* C23: SBC with operand x leaves the accumulator and the flags that ADC with
\* operand x XOR 0xFF leaves from the same starting state.
C23_SbcIsAdcOfComplement ==
    (Executed /\ opcode = 233) =>
        LET other == adc([Before EXCEPT
                            !.cpu.addr_mode = "IMMEDIATE",
                            !.cpu.operand_addr = 2047,
                            !.ram = VecPut(@, 2047, BitXor(OperandByte(1), 255))]).cpu
        IN  cpu.a = other.a /\ cpu.p = other.p

\* C23, its case: 0x50 - 0xF0 with carry set (no borrow) gives 0x60 with C
\* clear, as 0x50 + 0x0F + 1 does
C23_Witness ==
    /\ Executed /\ opcode = 233
    /\ hist.before.a = 80 /\ OperandByte(1) = 240
    /\ BitAnd(hist.before.p, CARRY) = CARRY
    /\ cpu.a = 96 /\ ~FlagSet(CARRY) /\ ~FlagSet(OVERFLOW_)

\* C24: for every operand byte b and index i (X for ZEROPAGE_X, Y for
\* ZEROPAGE_Y) the resolved effective address is (b + i) mod 256, in page
\* zero, never 0x0100 or above.
C24_ZeroPageIndexWraps ==
    (Executed /\ Entry.addr_mode \in {"ZEROPAGE_X", "ZEROPAGE_Y"}) =>
        /\ cpu.operand_addr =
              (OperandByte(1) + (IF Entry.addr_mode = "ZEROPAGE_X"
                                 THEN hist.before.x ELSE hist.before.y)) % 256
        /\ cpu.operand_addr \in 0 .. 255

\* C24, its case: LDX $FF,Y with Y = 0x56 reads cell 0x55 (not 0x0155)
C24_Witness ==
    /\ Executed /\ opcode = 182
    /\ OperandByte(1) = 255 /\ hist.before.y = 86 /\ hist.before.x # 86
    /\ cpu.operand_addr = 85

----------------------------------------------------------------------------
(* The stack on its own: a CPU with SP anywhere, on which push_stack is     *)
(* called up to MaxPush times and pop_stack then as many times at most.     *)
(* wlog holds the writes of the pushes, hist.pops the bytes the pops gave.  *)

InitStack ==
    /\ \E sp \in {0, 1, 128, 253, 255} : cpu = [NewCPU EXCEPT !.sp = sp]
    /\ ram \in {[size |-> 2048, at |-> <<>>, fill |-> g] : g \in RamGarbage}
    /\ cart = [outcome |-> "none", mapper |-> EmptyMapper, file |-> NoFile]
    /\ cartridge = "null"
    /\ host_pc = "push"
    /\ cycles = 0
    /\ error = "none"
    /\ ub = {}
    /\ ret = 0
    /\ opcode = -1
    /\ last_read = [address |-> -1, v |-> 0, ub |-> "none"]
    /\ wlog = <<>>
    /\ build = [rti |-> "unset", rts |-> "unset"]
    /\ hist = [call |-> "none", hit |-> FALSE, before |-> cpu, ram |-> ram,
               writes |-> 0, before2 |-> NewCPU, opcode2 |-> -1, sum |-> 0,
               jsr |-> [a |-> -1, sp |-> 0, sp_after |-> 0, hi |-> 0, lo |-> 0],
               pops |-> <<>>]

\* push_stack(data); the i-th byte pushed is 7 * i + 3 mod 256
Stack_Push ==
    /\ host_pc = "push"
    /\ Len(wlog) < MaxPush
    /\ Commit(push_stack(Machine(0, "left_first"), U8(7 * Len(wlog) + 3)), FALSE, "push")
    /\ UNCHANGED <<cart, cartridge, cycles, error, ret, opcode, last_read, hist>>

\* pop_stack(); the pops start after a few pushes, after a multiple of 64,
\* or after nearly all of them
Stack_Pop ==
    /\ \/ host_pc = "pop"
       \/ /\ host_pc = "push"
          /\ Len(wlog) <= 8 \/ Len(wlog) % 64 = 0 \/ Len(wlog) >= MaxPush - 1
    /\ Len(hist.pops) < Len(wlog)
    /\ LET r == pop_stack(Machine(0, "left_first"))
       IN  /\ Commit(r.m, FALSE, "pop")
           /\ ret' = r.v
           /\ hist' = [hist EXCEPT !.pops = Append(@, r.v)]
    /\ UNCHANGED <<cart, cartridge, cycles, error, opcode, last_read>>

SpecStack == InitStack /\ [][Stack_Push \/ Stack_Pop]_vars

\* C25: the i-th push writes at 0x0100 | SP, SP being the first SP less i - 1
\* mod 256, so in 0x0100-0x01FF; SP is the first SP less the pushes plus the
\* pops mod 256; every pop returns the byte at 0x0100 | SP after the
\* increment; k <= 256 pushes followed by pops return the bytes in reverse
\* order (one push and one pop: the byte pushed, SP restored).
C25_StackDiscipline ==
    host_pc \in {"push", "pop"} =>
        /\ \A i \in 1 .. Len(wlog) :
              /\ wlog[i][1] = BitOr(STACK_BASE_ADDRESS, U8(hist.before.sp + 256 - (i - 1)))
              /\ wlog[i][1] \in 256 .. 511
        /\ cpu.sp = U8(hist.before.sp + 256 - Len(wlog) + Len(hist.pops))
        /\ host_pc = "pop" => ret = bus_read(Now, BitOr(STACK_BASE_ADDRESS, cpu.sp)).v
        /\ Len(wlog) <= 256 =>
              \A j \in 1 .. Len(hist.pops) : hist.pops[j] = wlog[Len(wlog) - j + 1][2]
        /\ (Len(wlog) <= 256 /\ Len(hist.pops) = Len(wlog)) => cpu.sp = hist.before.sp

\* C25, its case: 256 pushes from SP = 0x01 (wrapping after two) and 256
\* pops, the last giving the first byte pushed
C25_Witness ==
    /\ host_pc = "pop"
    /\ hist.before.sp = 1
    /\ Len(wlog) = 256 /\ Len(hist.pops) = 256
    /\ wlog[3][1] = 511
    /\ hist.pops[256] = 3 /\ hist.pops[1] = wlog[256][2]
    /\ cpu.sp = 1

\* C26: step() executes the one instruction at PC; for a legal opcode other
\* than JMP, JSR, RTS, RTI, BRK and a taken branch, PC afterwards is the
\* opcode's address plus 1 plus the operand bytes of its mode (0 for
\* ACCUMULATOR / IMPLIED, 2 for ABSOLUTE and ABSOLUTE,X/Y, 1 otherwise) mod
\* 2^16; a branch whose condition fails leaves PC just past its operand byte.
C26_PcAdvances ==
    Executed =>
        LET p == hist.before.p
            taken ==
                CASE Entry.mnemonic = "BPL" -> BitAnd(p, NEGATIVE) = 0
                  [] Entry.mnemonic = "BMI" -> BitAnd(p, NEGATIVE) # 0
                  [] Entry.mnemonic = "BVC" -> BitAnd(p, OVERFLOW_) = 0
                  [] Entry.mnemonic = "BVS" -> BitAnd(p, OVERFLOW_) # 0
                  [] Entry.mnemonic = "BCC" -> BitAnd(p, CARRY) = 0
                  [] Entry.mnemonic = "BCS" -> BitAnd(p, CARRY) # 0
                  [] Entry.mnemonic = "BNE" -> BitAnd(p, ZERO) = 0
                  [] Entry.mnemonic = "BEQ" -> BitAnd(p, ZERO) # 0
                  [] OTHER -> FALSE
            bytes ==
                CASE Entry.addr_mode \in {"ACCUMULATOR", "IMPLIED"} -> 0
                  [] Entry.addr_mode \in {"ABSOLUTE", "ABSOLUTE_X", "ABSOLUTE_Y"} -> 2
                  [] OTHER -> 1
        IN  /\ opcode = bus_read(Before, hist.before.pc).v
            /\ (Entry.mnemonic \notin {"JMP", "JSR", "RTS", "RTI", "BRK"} /\ ~taken)
               => cpu.pc = (hist.before.pc + 1 + bytes) % 65536

\* C26, its case: BCC at 0xFFFF with carry set, its operand at 0x0000: PC
\* wraps to 0x0001
C26_Witness ==
    /\ Executed /\ opcode = 144
    /\ hist.before.pc = 65535
    /\ BitAnd(hist.before.p, CARRY) # 0
    /\ cpu.pc = 1

\* C27: a taken branch sets PC to (q + s) mod 2^16, q the address after the
\* operand byte and s the operand as a signed byte; BPL is taken on N=0, BMI
\* on N=1, BVC on V=0, BVS on V=1, BCC on C=0, BCS on C=1, BNE on Z=0, BEQ on
\* Z=1 and on nothing else (a branch not taken leaves PC = q and costs 2
\* cycles, a taken one more); no branch changes a flag, a register or memory.
C27_Branch ==
    (Executed /\ opcode \in {16, 48, 80, 112, 144, 176, 208, 240}) =>
        LET p == hist.before.p
            q == (hist.before.pc + 2) % 65536
            s == IF OperandByte(1) >= 128 THEN OperandByte(1) - 256 ELSE OperandByte(1)
            taken ==
                CASE opcode = 16 -> BitAnd(p, NEGATIVE) = 0
                  [] opcode = 48 -> BitAnd(p, NEGATIVE) # 0
                  [] opcode = 80 -> BitAnd(p, OVERFLOW_) = 0
                  [] opcode = 112 -> BitAnd(p, OVERFLOW_) # 0
                  [] opcode = 144 -> BitAnd(p, CARRY) = 0
                  [] opcode = 176 -> BitAnd(p, CARRY) # 0
                  [] opcode = 208 -> BitAnd(p, ZERO) = 0
                  [] opcode = 240 -> BitAnd(p, ZERO) # 0
        IN  /\ cpu.pc = IF taken THEN (q + s + 65536) % 65536 ELSE q
            /\ ret > 2 <=> taken
            /\ cpu.p = p
            /\ cpu.a = hist.before.a /\ cpu.x = hist.before.x /\ cpu.y = hist.before.y
            /\ cpu.sp = hist.before.sp
            /\ ram = hist.ram
            /\ Len(wlog) = hist.writes

\* C27, its case: BVS -128 at 0x0000 with V set goes back past 0x0000
C27_Witness ==
    /\ Executed /\ opcode = 112
    /\ hist.before.pc = 0 /\ OperandByte(1) = 128
    /\ BitAnd(hist.before.p, OVERFLOW_) # 0
    /\ cpu.pc = 65410

====
